---- MODULE Spec2Model ----
(***************************************************************************)
(* A model of the conversion router of @texel/color (src/src/core.js) and  *)
(* of the vector kernels it is built from.                                 *)
(*                                                                         *)
(* Vectors live in a heap of buffers so that aliasing of input and out,    *)
(* the module-level scratch vector tmp3 and the buffers created by vec3()  *)
(* are all visible.  JavaScript indices 0..2 (and 3 for alpha) are the     *)
(* TLA+ indices 1..3 (and 4).                                              *)
(*                                                                         *)
(* Numbers are the elements of the prime field Z_P.  With P = 11 the cube  *)
(* x^3 is a bijection whose inverse x^7 plays the part of the real,        *)
(* sign-preserving cube root, every matrix of the library has an exact     *)
(* inverse, and cube, cube root and the two transfer directions are all    *)
(* different functions.  IEEE rounding is not modelled.                    *)
(***************************************************************************)
EXTENDS Integers, Sequences, FiniteSets, TLC

VARIABLES heap, call, prev, ncalls, results

vars == <<heap, call, prev, ncalls, results>>

----------------------------------------------------------------------------
(* Bounds *)

\* components of the caller's input vectors range over 0..MaxVal
MaxVal == 1

\* number of calls the caller makes in a call sequence (SpecSeq)
MaxCalls == 3

----------------------------------------------------------------------------
(* Arithmetic *)

P == 11

cube(x) == (x * x * x) % P

\* Math.cbrt: the inverse of cube, odd (sign-preserving): cbrt(-x) = -cbrt(x)
cbrt(x) == (cube(x) * cube(x) * x) % P

----------------------------------------------------------------------------
(* conversion_matrices.js: representatives over Z_P; every X_to_Y matrix   *)
(* is the exact inverse of Y_to_X, and linear_S_to_LMS_M is                *)
(* XYZ_to_LMS_M * linear_S_to_XYZ_M as in the library's generated data.    *)

NoMat == << >>

Has(m) == m # NoMat

OKLab_to_LMS_M == <<<<6, 3, 7>>, <<1, 2, 9>>, <<2, 6, 10>>>>
LMS_to_OKLab_M == <<<<1, 10, 9>>, <<3, 9, 3>>, <<9, 8, 2>>>>
XYZ_to_LMS_M == <<<<7, 3, 9>>, <<2, 10, 5>>, <<9, 3, 2>>>>
LMS_to_XYZ_M == <<<<7, 3, 5>>, <<9, 3, 7>>, <<10, 4, 6>>>>
linear_sRGB_to_XYZ_M == <<<<10, 4, 8>>, <<9, 7, 6>>, <<8, 10, 8>>>>
XYZ_to_linear_sRGB_M == <<<<10, 1, 3>>, <<5, 4, 3>>, <<3, 5, 3>>>>
linear_sRGB_to_LMS_M == <<<<4, 7, 3>>, <<7, 7, 6>>, <<1, 0, 7>>>>
LMS_to_linear_sRGB_M == <<<<10, 1, 9>>, <<2, 6, 5>>, <<8, 3, 2>>>>
linear_A98RGB_to_XYZ_M == <<<<8, 6, 8>>, <<5, 10, 2>>, <<2, 9, 7>>>>
XYZ_to_linear_A98RGB_M == <<<<8, 8, 9>>, <<2, 7, 2>>, <<3, 6, 6>>>>
linear_A98RGB_to_LMS_M == <<<<1, 10, 4>>, <<10, 3, 5>>, <<3, 3, 4>>>>
LMS_to_linear_A98RGB_M == <<<<9, 7, 7>>, <<9, 2, 5>>, <<3, 7, 5>>>>
linear_ProPhotoRGB_to_XYZ_M == <<<<6, 7, 4>>, <<3, 2, 3>>, <<3, 4, 4>>>>
XYZ_to_linear_ProPhotoRGB_M == <<<<7, 10, 2>>, <<8, 1, 5>>, <<6, 8, 2>>>>
linear_DisplayP3_to_XYZ_M == <<<<9, 9, 2>>, <<10, 7, 7>>, <<7, 5, 6>>>>
XYZ_to_linear_DisplayP3_M == <<<<4, 0, 6>>, <<0, 4, 10>>, <<10, 4, 5>>>>
linear_DisplayP3_to_LMS_M == <<<<2, 8, 1>>, <<10, 3, 5>>, <<4, 2, 7>>>>
LMS_to_linear_DisplayP3_M == <<<<0, 3, 1>>, <<4, 8, 0>>, <<2, 7, 9>>>>
linear_Rec2020_to_XYZ_M == <<<<8, 2, 9>>, <<1, 7, 3>>, <<3, 6, 10>>>>
XYZ_to_linear_Rec2020_M == <<<<2, 3, 5>>, <<8, 5, 10>>, <<10, 6, 8>>>>
linear_Rec2020_to_LMS_M == <<<<9, 1, 8>>, <<8, 5, 10>>, <<4, 7, 0>>>>
LMS_to_linear_Rec2020_M == <<<<3, 2, 6>>, <<3, 2, 3>>, <<6, 3, 8>>>>
D50_to_D65_M == <<<<1, 8, 10>>, <<3, 5, 5>>, <<1, 3, 7>>>>
D65_to_D50_M == <<<<1, 2, 5>>, <<8, 7, 4>>, <<9, 3, 4>>>>

\* matrices of the caller-defined ("custom") spaces
linear_Custom_to_XYZ_M == <<<<5, 8, 2>>, <<1, 5, 10>>, <<8, 5, 7>>>>
XYZ_to_linear_Custom_M == <<<<4, 2, 7>>, <<4, 3, 4>>, <<2, 5, 5>>>>
linear_Custom_to_LMS_M == <<<<0, 6, 8>>, <<5, 3, 7>>, <<9, 9, 7>>>>
LMS_to_linear_Custom_M == <<<<6, 2, 10>>, <<7, 4, 10>>, <<10, 8, 9>>>>
Half_to_XYZ_M == <<<<9, 6, 10>>, <<10, 6, 3>>, <<9, 10, 1>>>>
Fn_to_XYZ_M == <<<<1, 4, 2>>, <<4, 8, 3>>, <<2, 6, 10>>>>
XYZ_to_Fn_M == <<<<5, 2, 5>>, <<4, 9, 2>>, <<1, 3, 10>>>>

----------------------------------------------------------------------------
(* util.js and the kernels of core.js, on the heap *)

\* the module-level scratch vector of core.js is buffer 0
tmp3 == 0

NewRef(h) == Cardinality(DOMAIN h)

\* vec3(): a new buffer [0, 0, 0]
vec3(h) == h @@ (NewRef(h) :> <<0, 0, 0>>)

dot3(a, b) == (a[1] * b[1] + a[2] * b[2] + a[3] * b[3]) % P

\* writes out[i] = v (JavaScript array assignment: index 3 of a 3-vector
\* would extend it)
Store(h, out, i, v) ==
    IF i <= Len(h[out]) THEN [h EXCEPT ![out][i] = v]
    ELSE [h EXCEPT ![out] = Append(@, v)]

transformEarlyWrite(h, input, matrix, out) ==
    LET h1 == Store(h, out, 1, dot3(h[input], matrix[1]))
        h2 == Store(h1, out, 2, dot3(h1[input], matrix[2]))
    IN  Store(h2, out, 3, dot3(h2[input], matrix[3]))

transform(h, input, matrix, out) ==
    LET x == dot3(h[input], matrix[1])
        y == dot3(h[input], matrix[2])
        z == dot3(h[input], matrix[3])
    IN  Store(Store(Store(h, out, 1, x), out, 2, y), out, 3, z)

cubed3(h, lms) ==
    LET l == h[lms][1]
        m == h[lms][2]
        s == h[lms][3]
    IN  Store(Store(Store(h, lms, 1, cube(l)), lms, 2, cube(m)), lms, 3, cube(s))

cbrt3(h, lms) ==
    LET h1 == Store(h, lms, 1, cbrt(h[lms][1]))
        h2 == Store(h1, lms, 2, cbrt(h1[lms][2]))
    IN  Store(h2, lms, 3, cbrt(h2[lms][3]))

OKLab_to(h, OKLab_, LMS_to_output, out) ==
    transform(cubed3(transform(h, OKLab_, OKLab_to_LMS_M, out), out),
              out, LMS_to_output, out)

\* the cube root taken after both matrices
OKLab_fromRootLast(h, input, input_to_LMS, out) ==
    cbrt3(transform(transform(h, input, input_to_LMS, out),
                    out, LMS_to_OKLab_M, out), out)

OKLab_from(h, input, input_to_LMS, out) ==
    transform(cbrt3(transform(h, input, input_to_LMS, out), out),
              out, LMS_to_OKLab_M, out)

vec3CopyAll(h, input, output) == [h EXCEPT ![output] = h[input]]

vec3Copy(h, input, output) ==
    LET h1 == Store(h, output, 1, h[input][1])
        h2 == Store(h1, output, 2, h1[input][2])
    IN  Store(h2, output, 3, h2[input][3])

\* the default parameter `out = vec3()`: outArg is << >> when the caller
\* omits out and <<ref>> when the caller supplies the buffer ref
DefaultOutScratch(h, outArg) ==
    IF outArg = << >>
    THEN [heap |-> h, out |-> tmp3, made |-> 0]
    ELSE [heap |-> h, out |-> outArg[1], made |-> 0]

DefaultOut(h, outArg) ==
    IF outArg = << >>
    THEN [heap |-> vec3(h), out |-> NewRef(h), made |-> 1]
    ELSE [heap |-> h, out |-> outArg[1], made |-> 0]

----------------------------------------------------------------------------
(* Transfer functions and the other toBase / fromBase / toXYZ / fromXYZ   *)
(* functions of the descriptors.  Each writes out[0], out[1], out[2] in    *)
(* this order and returns out.                                             *)

\* sign * pow(abs, 563 / 256): an odd bijection
A98RGBToLinear(val) == cube(val)

\* sign * pow(abs, 256 / 563): its inverse
A98RGBToGamma(val) == cbrt(val)

sRGBGammaToLinear(val) == (2 * cube(val)) % P

sRGBLinearToGamma(val) == cbrt((6 * val) % P)

\* the Rec. 2020 transfer function and its inverse
Rec2020ToLinear(val) == (3 * cube(val)) % P

Rec2020ToGamma(val) == cbrt((4 * val) % P)

NoFn == "none"

A98RGB_toBase(h, vec, out) ==
    LET h1 == Store(h, out, 1, A98RGBToLinear(h[vec][1]))
        h2 == Store(h1, out, 2, A98RGBToLinear(h1[vec][2]))
    IN  Store(h2, out, 3, A98RGBToLinear(h2[vec][3]))

A98RGB_fromBase(h, vec, out) ==
    LET h1 == Store(h, out, 1, A98RGBToGamma(h[vec][1]))
        h2 == Store(h1, out, 2, A98RGBToGamma(h1[vec][2]))
    IN  Store(h2, out, 3, A98RGBToGamma(h2[vec][3]))

sRGBGammaToLinearVec3(h, vec, out) ==
    LET h1 == Store(h, out, 1, sRGBGammaToLinear(h[vec][1]))
        h2 == Store(h1, out, 2, sRGBGammaToLinear(h1[vec][2]))
    IN  Store(h2, out, 3, sRGBGammaToLinear(h2[vec][3]))

sRGBLinearToGammaVec3(h, vec, out) ==
    LET h1 == Store(h, out, 1, sRGBLinearToGamma(h[vec][1]))
        h2 == Store(h1, out, 2, sRGBLinearToGamma(h1[vec][2]))
    IN  Store(h2, out, 3, sRGBLinearToGamma(h2[vec][3]))

Rec2020_toBase(h, vec, out) ==
    LET h1 == Store(h, out, 1, Rec2020ToLinear(h[vec][1]))
        h2 == Store(h1, out, 2, Rec2020ToLinear(h1[vec][2]))
    IN  Store(h2, out, 3, Rec2020ToLinear(h2[vec][3]))

Rec2020_fromBase(h, vec, out) ==
    LET h1 == Store(h, out, 1, Rec2020ToGamma(h[vec][1]))
        h2 == Store(h1, out, 2, Rec2020ToGamma(h1[vec][2]))
    IN  Store(h2, out, 3, Rec2020ToGamma(h2[vec][3]))

\* the polar form of OKLab: coordinates 1 and 2 are mixed, 0 is kept
OKLCHToOKLab(h, vec, out) ==
    LET L == h[vec][1]
        C == h[vec][2]
        H == h[vec][3]
    IN  Store(Store(Store(h, out, 1, L), out, 2, (C + H) % P), out, 3, H)

OKLabToOKLCH(h, vec, out) ==
    LET L == h[vec][1]
        a == h[vec][2]
        b == h[vec][3]
    IN  Store(Store(Store(h, out, 1, L), out, 2, (a + P - b) % P), out, 3, b)

\* fn(vec, out): the heap after the call; the call returns out
ApplyFn(fn, h, vec, out) ==
    CASE fn = "A98RGB.toBase" -> A98RGB_toBase(h, vec, out)
      [] fn = "A98RGB.fromBase" -> A98RGB_fromBase(h, vec, out)
      [] fn = "Rec2020.toBase" -> Rec2020_toBase(h, vec, out)
      [] fn = "Rec2020.fromBase" -> Rec2020_fromBase(h, vec, out)
      [] fn = "sRGBGammaToLinearVec3" -> sRGBGammaToLinearVec3(h, vec, out)
      [] fn = "sRGBLinearToGammaVec3" -> sRGBLinearToGammaVec3(h, vec, out)
      [] fn = "OKLCHToOKLab" -> OKLCHToOKLab(h, vec, out)
      [] fn = "OKLabToOKLCH" -> OKLabToOKLCH(h, vec, out)
      [] fn = "FnToXYZ" -> transform(h, vec, Fn_to_XYZ_M, out)
      [] fn = "FnFromXYZ" -> transform(h, vec, XYZ_to_Fn_M, out)

----------------------------------------------------------------------------
(* Color space descriptors.  A descriptor is identified by its name (the   *)
(* object), never by its id field; base holds the name of the base.        *)

NoBase == "none"

NoAdapt == [to |-> NoMat, from |-> NoMat]

Blank ==
    [id |-> "", base |-> NoBase, toBase |-> NoFn, fromBase |-> NoFn,
     toXYZ_M |-> NoMat, fromXYZ_M |-> NoMat,
     toLMS_M |-> NoMat, fromLMS_M |-> NoMat,
     adapt |-> NoAdapt, toXYZ |-> NoFn, fromXYZ |-> NoFn]

XYZ ==
    [Blank EXCEPT !.id = "xyz",
                  !.toLMS_M = XYZ_to_LMS_M, !.fromLMS_M = LMS_to_XYZ_M]

OKLab == [Blank EXCEPT !.id = "oklab"]

OKLCH ==
    [Blank EXCEPT !.id = "oklch", !.base = "OKLab",
                  !.toBase = "OKLCHToOKLab", !.fromBase = "OKLabToOKLCH"]

sRGBLinear ==
    [Blank EXCEPT !.id = "srgb-linear",
                  !.toXYZ_M = linear_sRGB_to_XYZ_M,
                  !.fromXYZ_M = XYZ_to_linear_sRGB_M,
                  !.toLMS_M = linear_sRGB_to_LMS_M,
                  !.fromLMS_M = LMS_to_linear_sRGB_M]

sRGB ==
    [Blank EXCEPT !.id = "srgb", !.base = "sRGBLinear",
                  !.toBase = "sRGBGammaToLinearVec3",
                  !.fromBase = "sRGBLinearToGammaVec3"]

A98RGBLinear ==
    [Blank EXCEPT !.id = "a98-rgb-linear",
                  !.toXYZ_M = linear_A98RGB_to_XYZ_M,
                  !.fromXYZ_M = XYZ_to_linear_A98RGB_M,
                  !.toLMS_M = linear_A98RGB_to_LMS_M,
                  !.fromLMS_M = LMS_to_linear_A98RGB_M]

A98RGB ==
    [Blank EXCEPT !.id = "a98-rgb", !.base = "A98RGBLinear",
                  !.toBase = "A98RGB.toBase",
                  !.fromBase = "A98RGB.fromBase"]

\* display-p3-linear without the matrix from XYZ
DisplayP3LinearNoFromXYZ ==
    [Blank EXCEPT !.id = "display-p3-linear",
                  !.toXYZ_M = linear_DisplayP3_to_XYZ_M,
                  !.toLMS_M = linear_DisplayP3_to_LMS_M,
                  !.fromLMS_M = LMS_to_linear_DisplayP3_M]

DisplayP3Linear ==
    [Blank EXCEPT !.id = "display-p3-linear",
                  !.toXYZ_M = linear_DisplayP3_to_XYZ_M,
                  !.fromXYZ_M = XYZ_to_linear_DisplayP3_M,
                  !.toLMS_M = linear_DisplayP3_to_LMS_M,
                  !.fromLMS_M = LMS_to_linear_DisplayP3_M]

DisplayP3 ==
    [Blank EXCEPT !.id = "display-p3", !.base = "DisplayP3Linear",
                  !.toBase = "sRGBGammaToLinearVec3",
                  !.fromBase = "sRGBLinearToGammaVec3"]

Rec2020Linear ==
    [Blank EXCEPT !.id = "rec2020-linear",
                  !.toXYZ_M = linear_Rec2020_to_XYZ_M,
                  !.fromXYZ_M = XYZ_to_linear_Rec2020_M,
                  !.toLMS_M = linear_Rec2020_to_LMS_M,
                  !.fromLMS_M = LMS_to_linear_Rec2020_M]

Rec2020 ==
    [Blank EXCEPT !.id = "rec2020", !.base = "Rec2020Linear",
                  !.toBase = "Rec2020.toBase",
                  !.fromBase = "Rec2020.fromBase"]

ProPhotoRGBLinear ==
    [Blank EXCEPT !.id = "prophoto-rgb-linear",
                  !.adapt = [to |-> D50_to_D65_M, from |-> D65_to_D50_M],
                  !.toXYZ_M = linear_ProPhotoRGB_to_XYZ_M,
                  !.fromXYZ_M = XYZ_to_linear_ProPhotoRGB_M]

(* Caller-defined descriptors: convert accepts any object of the           *)
(* ColorSpace shape, well-formed or not.                                   *)

\* a D50 space with every matrix
CustomD50 ==
    [Blank EXCEPT !.id = "custom-d50",
                  !.adapt = [to |-> D50_to_D65_M, from |-> D65_to_D50_M],
                  !.toXYZ_M = linear_Custom_to_XYZ_M,
                  !.fromXYZ_M = XYZ_to_linear_Custom_M,
                  !.toLMS_M = linear_Custom_to_LMS_M,
                  !.fromLMS_M = LMS_to_linear_Custom_M]

\* XYZ through functions instead of matrices
FnXYZ == [Blank EXCEPT !.id = "fn-xyz", !.toXYZ = "FnToXYZ", !.fromXYZ = "FnFromXYZ"]

\* a base of depth 2: Deep -> sRGB -> sRGBLinear
Deep ==
    [Blank EXCEPT !.id = "deep", !.base = "sRGB",
                  !.toBase = "A98RGB.toBase",
                  !.fromBase = "A98RGB.fromBase"]

\* a base but neither toBase nor fromBase
NoFns == [Blank EXCEPT !.id = "no-fns", !.base = "sRGBLinear"]

\* no transform at all
Bare == [Blank EXCEPT !.id = "bare"]

\* toXYZ_M without fromXYZ_M
HalfXYZ == [Blank EXCEPT !.id = "half-xyz", !.toXYZ_M = Half_to_XYZ_M]

\* a second descriptor with the id of OKLab, with LMS matrices
OKLabTwin ==
    [Blank EXCEPT !.id = "oklab",
                  !.toLMS_M = linear_Custom_to_LMS_M,
                  !.fromLMS_M = LMS_to_linear_Custom_M]

\* sRGBLinear under another id
LinearTwin == [sRGBLinear EXCEPT !.id = "linear-twin"]

\* a second derived space on the base of sRGB, with the functions of A98RGB
SharedBase == [A98RGB EXCEPT !.id = "shared-base", !.base = "sRGBLinear"]

Undefined == "undefined"

SpaceNames ==
    {"XYZ", "OKLab", "OKLCH", "sRGBLinear", "sRGB", "A98RGBLinear", "A98RGB",
     "ProPhotoRGBLinear", "CustomD50", "FnXYZ", "Deep", "NoFns", "Bare",
     "HalfXYZ", "OKLabTwin", "LinearTwin", "DisplayP3Linear", "DisplayP3",
     "Rec2020Linear", "Rec2020", "SharedBase"}

Spaces ==
    [n \in SpaceNames |->
        CASE n = "XYZ" -> XYZ
          [] n = "OKLab" -> OKLab
          [] n = "OKLCH" -> OKLCH
          [] n = "sRGBLinear" -> sRGBLinear
          [] n = "sRGB" -> sRGB
          [] n = "A98RGBLinear" -> A98RGBLinear
          [] n = "A98RGB" -> A98RGB
          [] n = "ProPhotoRGBLinear" -> ProPhotoRGBLinear
          [] n = "CustomD50" -> CustomD50
          [] n = "FnXYZ" -> FnXYZ
          [] n = "Deep" -> Deep
          [] n = "NoFns" -> NoFns
          [] n = "Bare" -> Bare
          [] n = "HalfXYZ" -> HalfXYZ
          [] n = "OKLabTwin" -> OKLabTwin
          [] n = "LinearTwin" -> LinearTwin
          [] n = "DisplayP3Linear" -> DisplayP3Linear
          [] n = "DisplayP3" -> DisplayP3
          [] n = "Rec2020Linear" -> Rec2020Linear
          [] n = "Rec2020" -> Rec2020
          [] n = "SharedBase" -> SharedBase]

\* space.base ?? space
BaseOf(n) == IF Spaces[n].base # NoBase THEN Spaces[n].base ELSE n

\* the arguments a caller can pass for fromSpace / toSpace
SpaceArgs == SpaceNames \cup {Undefined}

----------------------------------------------------------------------------
(* convert (core.js).  A frame is the state of one call: the heap, the     *)
(* local variable out, the steps applied so far, the local variable        *)
(* throughXYZ (hub), the number of vec3() calls made, and the error thrown *)
(* (NoErr while the call is running).                                      *)

\* an error is a sequence of strings: the message and the ids it names
NoErr == << >>

ErrFromSpace == <<"must specify a fromSpace">>

ErrToSpace == <<"must specify a toSpace">>

ErrDepth == <<"Currently only base of depth=1 is supported">>

\* fromSpace.toBase(out, out) when toBase is undefined
ErrNotAFunction == <<"TypeError: fromSpace.toBase is not a function">>

ErrNoToXYZ(space) == <<"no toXYZ or toXYZ_M on", Spaces[space].id>>

ErrNoFromXYZ(space) == <<"no fromXYZ or fromXYZ_M on", Spaces[space].id>>

ErrNoFromBase(base, space) ==
    <<"could not transform", Spaces[base].id, "to", Spaces[space].id>>

Throw(f, e) == [f EXCEPT !.err = e]

Failed(f) == f.err # NoErr

\* one step `out = step(out, ..., out)`: the heap after it and its name
Step(f, name, h) == [f EXCEPT !.heap = h, !.trace = Append(@, name)]

\* if (throughXYZ) { ... }
\* a source without toXYZ and toXYZ_M is passed on unchanged
hubToXYZSkips(f, fromBaseSpace, xyzIn) ==
    LET F == Spaces[fromBaseSpace]
    IN  IF xyzIn THEN f
        ELSE IF F.toXYZ # NoFn
        THEN Step(f, <<"toXYZ", fromBaseSpace>>,
                  ApplyFn(F.toXYZ, f.heap, f.out, f.out))
        ELSE IF Has(F.toXYZ_M)
        THEN Step(f, <<"toXYZ_M", fromBaseSpace>>,
                  transform(f.heap, f.out, F.toXYZ_M, f.out))
        ELSE f

hubToXYZ(f, fromBaseSpace, xyzIn) ==
    LET F == Spaces[fromBaseSpace]
    IN  IF xyzIn THEN f
        ELSE IF F.toXYZ # NoFn
        THEN Step(f, <<"toXYZ", fromBaseSpace>>,
                  ApplyFn(F.toXYZ, f.heap, f.out, f.out))
        ELSE IF Has(F.toXYZ_M)
        THEN Step(f, <<"toXYZ_M", fromBaseSpace>>,
                  transform(f.heap, f.out, F.toXYZ_M, f.out))
        ELSE Throw(f, ErrNoToXYZ(fromBaseSpace))

hubAdaptWrongWay(f, fromBaseSpace, toBaseSpace) ==
    LET F  == Spaces[fromBaseSpace]
        T  == Spaces[toBaseSpace]
        f1 == IF F.adapt # NoAdapt
              THEN Step(f, <<"adapt.from", fromBaseSpace>>,
                        transform(f.heap, f.out, F.adapt.from, f.out))
              ELSE f
    IN  IF T.adapt # NoAdapt
        THEN Step(f1, <<"adapt.from", toBaseSpace>>,
                  transform(f1.heap, f1.out, T.adapt.from, f1.out))
        ELSE f1

hubAdapt(f, fromBaseSpace, toBaseSpace) ==
    LET F  == Spaces[fromBaseSpace]
        T  == Spaces[toBaseSpace]
        f1 == IF F.adapt # NoAdapt
              THEN Step(f, <<"adapt.to", fromBaseSpace>>,
                        transform(f.heap, f.out, F.adapt.to, f.out))
              ELSE f
    IN  IF T.adapt # NoAdapt
        THEN Step(f1, <<"adapt.from", toBaseSpace>>,
                  transform(f1.heap, f1.out, T.adapt.from, f1.out))
        ELSE f1

\* the target's own transform from XYZ, whether or not it is OKLab
hubFromXYZNoBridge(f, toBaseSpace, xyzOut, outputOklab) ==
    LET T == Spaces[toBaseSpace]
    IN  IF xyzOut THEN f
        ELSE IF T.fromXYZ # NoFn
        THEN Step(f, <<"fromXYZ", toBaseSpace>>,
                  ApplyFn(T.fromXYZ, f.heap, f.out, f.out))
        ELSE IF Has(T.fromXYZ_M)
        THEN Step(f, <<"fromXYZ_M", toBaseSpace>>,
                  transform(f.heap, f.out, T.fromXYZ_M, f.out))
        ELSE Throw(f, ErrNoFromXYZ(toBaseSpace))

hubFromXYZ(f, toBaseSpace, xyzOut, outputOklab) ==
    LET T == Spaces[toBaseSpace]
    IN  IF xyzOut THEN f
        ELSE IF outputOklab
        THEN Step(f, <<"OKLab_from", "XYZ">>,
                  OKLab_from(f.heap, f.out, XYZ.toLMS_M, f.out))
        ELSE IF T.fromXYZ # NoFn
        THEN Step(f, <<"fromXYZ", toBaseSpace>>,
                  ApplyFn(T.fromXYZ, f.heap, f.out, f.out))
        ELSE IF Has(T.fromXYZ_M)
        THEN Step(f, <<"fromXYZ_M", toBaseSpace>>,
                  transform(f.heap, f.out, T.fromXYZ_M, f.out))
        ELSE Throw(f, ErrNoFromXYZ(toBaseSpace))

\* the adaptation before the step into XYZ
throughXYZAdaptFirst(f, fromBaseSpace, toBaseSpace, xyzIn, xyzOut, outputOklab) ==
    LET f1 == hubToXYZ(hubAdapt([f EXCEPT !.hub = TRUE], fromBaseSpace,
                                toBaseSpace),
                       fromBaseSpace, xyzIn)
    IN  IF Failed(f1) THEN f1
        ELSE hubFromXYZ(f1, toBaseSpace, xyzOut, outputOklab)

throughXYZ(f, fromBaseSpace, toBaseSpace, xyzIn, xyzOut, outputOklab) ==
    LET f1 == hubToXYZ([f EXCEPT !.hub = TRUE], fromBaseSpace, xyzIn)
    IN  IF Failed(f1) THEN f1
        ELSE hubFromXYZ(hubAdapt(f1, fromBaseSpace, toBaseSpace),
                        toBaseSpace, xyzOut, outputOklab)

\* an OKLab source always goes by XYZ, whether or not the target has fromLMS_M
routeOKLabViaXYZ(f, fromBaseSpace, toBaseSpace) ==
    LET F      == Spaces[fromBaseSpace]
        T      == Spaces[toBaseSpace]
        xyzIn  == F.id = "xyz"
        xyzOut == T.id = "xyz"
    IN  IF F.id = "oklab"
        THEN throughXYZ(Step(f, <<"OKLab_to", "XYZ">>,
                             OKLab_to(f.heap, f.out, XYZ.fromLMS_M, f.out)),
                        fromBaseSpace, toBaseSpace, TRUE, xyzOut, FALSE)
        ELSE IF T.id = "oklab"
        THEN IF ~Has(F.toLMS_M)
             THEN throughXYZ(f, fromBaseSpace, toBaseSpace, xyzIn, xyzOut, TRUE)
             ELSE Step(f, <<"OKLab_from", fromBaseSpace>>,
                       OKLab_from(f.heap, f.out, F.toLMS_M, f.out))
        ELSE throughXYZ(f, fromBaseSpace, toBaseSpace, xyzIn, xyzOut, FALSE)

\* the direct OKLab matrix is used for the target with the id "srgb-linear"
\* only
routeByTargetId(f, fromBaseSpace, toBaseSpace) ==
    LET F      == Spaces[fromBaseSpace]
        T      == Spaces[toBaseSpace]
        xyzIn  == F.id = "xyz"
        xyzOut == T.id = "xyz"
    IN  IF F.id = "oklab"
        THEN IF Has(T.fromLMS_M) /\ T.id = "srgb-linear"
             THEN Step(f, <<"OKLab_to", toBaseSpace>>,
                       OKLab_to(f.heap, f.out, T.fromLMS_M, f.out))
             ELSE throughXYZ(Step(f, <<"OKLab_to", "XYZ">>,
                                  OKLab_to(f.heap, f.out, XYZ.fromLMS_M, f.out)),
                             fromBaseSpace, toBaseSpace, TRUE, xyzOut, FALSE)
        ELSE IF T.id = "oklab"
        THEN IF ~Has(F.toLMS_M)
             THEN throughXYZ(f, fromBaseSpace, toBaseSpace, xyzIn, xyzOut, TRUE)
             ELSE Step(f, <<"OKLab_from", fromBaseSpace>>,
                       OKLab_from(f.heap, f.out, F.toLMS_M, f.out))
        ELSE throughXYZ(f, fromBaseSpace, toBaseSpace, xyzIn, xyzOut, FALSE)

\* the else branch of `if (fromBaseSpace === toBaseSpace)`
route(f, fromBaseSpace, toBaseSpace) ==
    LET F      == Spaces[fromBaseSpace]
        T      == Spaces[toBaseSpace]
        xyzIn  == F.id = "xyz"
        xyzOut == T.id = "xyz"
    IN  IF F.id = "oklab"
        THEN IF Has(T.fromLMS_M)
             THEN Step(f, <<"OKLab_to", toBaseSpace>>,
                       OKLab_to(f.heap, f.out, T.fromLMS_M, f.out))
             ELSE throughXYZ(Step(f, <<"OKLab_to", "XYZ">>,
                                  OKLab_to(f.heap, f.out, XYZ.fromLMS_M, f.out)),
                             fromBaseSpace, toBaseSpace, TRUE, xyzOut, FALSE)
        ELSE IF T.id = "oklab"
        THEN IF ~Has(F.toLMS_M)
             THEN throughXYZ(f, fromBaseSpace, toBaseSpace, xyzIn, xyzOut, TRUE)
             ELSE Step(f, <<"OKLab_from", fromBaseSpace>>,
                       OKLab_from(f.heap, f.out, F.toLMS_M, f.out))
        ELSE throughXYZ(f, fromBaseSpace, toBaseSpace, xyzIn, xyzOut, FALSE)

\* a target without fromBase gets the value of its base
finishSilently(f, toBaseSpace, toSpace) ==
    IF Failed(f) THEN f
    ELSE IF toBaseSpace # toSpace /\ Spaces[toSpace].fromBase # NoFn
    THEN Step(f, <<"fromBase", toSpace>>,
              ApplyFn(Spaces[toSpace].fromBase, f.heap, f.out, f.out))
    ELSE f

\* if (toBaseSpace !== toSpace) { ... } return out
finish(f, toBaseSpace, toSpace) ==
    IF Failed(f) THEN f
    ELSE IF toBaseSpace # toSpace
    THEN IF Spaces[toSpace].fromBase # NoFn
         THEN Step(f, <<"fromBase", toSpace>>,
                   ApplyFn(Spaces[toSpace].fromBase, f.heap, f.out, f.out))
         ELSE Throw(f, ErrNoFromBase(toBaseSpace, toSpace))
    ELSE f

\* the depth check looks at the target only
descendChecksTargetOnly(f, fromSpace, toSpace) ==
    LET S  == Spaces[fromSpace]
        f1 == IF S.base # NoBase
              THEN IF S.toBase = NoFn THEN Throw(f, ErrNotAFunction)
                   ELSE Step(f, <<"toBase", fromSpace>>,
                             ApplyFn(S.toBase, f.heap, f.out, f.out))
              ELSE f
        fromBaseSpace == IF S.base # NoBase THEN S.base ELSE fromSpace
        toBaseSpace ==
            IF Spaces[toSpace].base # NoBase THEN Spaces[toSpace].base
            ELSE toSpace
    IN  IF Failed(f1) THEN f1
        ELSE IF Spaces[toBaseSpace].base # NoBase
        THEN Throw(f1, ErrDepth)
        ELSE finish(IF fromBaseSpace = toBaseSpace THEN f1
                    ELSE route(f1, fromBaseSpace, toBaseSpace),
                    toBaseSpace, toSpace)

\* toBase called without its out argument: toBase(out)
descendForgetsOut(f, fromSpace, toSpace) ==
    LET S  == Spaces[fromSpace]
        r  == NewRef(f.heap)
        f1 == IF S.base # NoBase
              THEN IF S.toBase = NoFn THEN Throw(f, ErrNotAFunction)
                   ELSE [Step(f, <<"toBase", fromSpace>>,
                              ApplyFn(S.toBase, vec3(f.heap), f.out, r))
                           EXCEPT !.out = r, !.made = @ + 1]
              ELSE f
        fromBaseSpace == IF S.base # NoBase THEN S.base ELSE fromSpace
        toBaseSpace ==
            IF Spaces[toSpace].base # NoBase THEN Spaces[toSpace].base
            ELSE toSpace
    IN  IF Failed(f1) THEN f1
        ELSE IF Spaces[fromBaseSpace].base # NoBase
                \/ Spaces[toBaseSpace].base # NoBase
        THEN Throw(f1, ErrDepth)
        ELSE finish(IF fromBaseSpace = toBaseSpace THEN f1
                    ELSE route(f1, fromBaseSpace, toBaseSpace),
                    toBaseSpace, toSpace)

\* equal bases are routed like any other pair
descendAlwaysRoutes(f, fromSpace, toSpace) ==
    LET S  == Spaces[fromSpace]
        f1 == IF S.base # NoBase
              THEN IF S.toBase = NoFn THEN Throw(f, ErrNotAFunction)
                   ELSE Step(f, <<"toBase", fromSpace>>,
                             ApplyFn(S.toBase, f.heap, f.out, f.out))
              ELSE f
        fromBaseSpace == IF S.base # NoBase THEN S.base ELSE fromSpace
        toBaseSpace ==
            IF Spaces[toSpace].base # NoBase THEN Spaces[toSpace].base
            ELSE toSpace
    IN  IF Failed(f1) THEN f1
        ELSE IF Spaces[fromBaseSpace].base # NoBase
                \/ Spaces[toBaseSpace].base # NoBase
        THEN Throw(f1, ErrDepth)
        ELSE finish(route(f1, fromBaseSpace, toBaseSpace),
                    toBaseSpace, toSpace)

\* convert from `if (fromSpace.base)` on
descend(f, fromSpace, toSpace) ==
    LET S  == Spaces[fromSpace]
        f1 == IF S.base # NoBase
              THEN IF S.toBase = NoFn THEN Throw(f, ErrNotAFunction)
                   ELSE Step(f, <<"toBase", fromSpace>>,
                             ApplyFn(S.toBase, f.heap, f.out, f.out))
              ELSE f
        fromBaseSpace == IF S.base # NoBase THEN S.base ELSE fromSpace
        toBaseSpace ==
            IF Spaces[toSpace].base # NoBase THEN Spaces[toSpace].base
            ELSE toSpace
    IN  IF Failed(f1) THEN f1
        ELSE IF Spaces[fromBaseSpace].base # NoBase
                \/ Spaces[toBaseSpace].base # NoBase
        THEN Throw(f1, ErrDepth)
        ELSE finish(IF fromBaseSpace = toBaseSpace THEN f1
                    ELSE route(f1, fromBaseSpace, toBaseSpace),
                    toBaseSpace, toSpace)

\* the identity fast path placed before the argument checks
convertIdentityFirst(h, input, fromSpace, toSpace, outArg) ==
    LET d == DefaultOut(h, outArg)
        f == [heap |-> vec3Copy(d.heap, input, d.out), out |-> d.out,
              trace |-> << >>, hub |-> FALSE, made |-> d.made, err |-> NoErr]
    IN  IF fromSpace = toSpace THEN f
        ELSE IF fromSpace = Undefined THEN Throw(f, ErrFromSpace)
        ELSE IF toSpace = Undefined THEN Throw(f, ErrToSpace)
        ELSE descend(f, fromSpace, toSpace)

\* no identity fast path
convertNoFastPath(h, input, fromSpace, toSpace, outArg) ==
    LET d == DefaultOut(h, outArg)
        f == [heap |-> vec3Copy(d.heap, input, d.out), out |-> d.out,
              trace |-> << >>, hub |-> FALSE, made |-> d.made, err |-> NoErr]
    IN  IF fromSpace = Undefined THEN Throw(f, ErrFromSpace)
        ELSE IF toSpace = Undefined THEN Throw(f, ErrToSpace)
        ELSE descend(f, fromSpace, toSpace)

\* the arguments are checked before the input is copied
convertChecksFirst(h, input, fromSpace, toSpace, outArg) ==
    LET d  == DefaultOut(h, outArg)
        f0 == [heap |-> d.heap, out |-> d.out,
               trace |-> << >>, hub |-> FALSE, made |-> d.made, err |-> NoErr]
        f  == [f0 EXCEPT !.heap = vec3Copy(d.heap, input, d.out)]
    IN  IF fromSpace = Undefined THEN Throw(f0, ErrFromSpace)
        ELSE IF toSpace = Undefined THEN Throw(f0, ErrToSpace)
        ELSE IF fromSpace = toSpace THEN f
        ELSE descend(f, fromSpace, toSpace)

\* the first copy goes from out to input
convertCopiesBack(h, input, fromSpace, toSpace, outArg) ==
    LET d == DefaultOut(h, outArg)
        f == [heap |-> vec3Copy(d.heap, d.out, input), out |-> d.out,
              trace |-> << >>, hub |-> FALSE, made |-> d.made, err |-> NoErr]
    IN  IF fromSpace = Undefined THEN Throw(f, ErrFromSpace)
        ELSE IF toSpace = Undefined THEN Throw(f, ErrToSpace)
        ELSE IF fromSpace = toSpace THEN f
        ELSE descend(f, fromSpace, toSpace)

\* convert(input, fromSpace, toSpace, out = vec3()); the call returns f.out
\* when f.err is NoErr and throws f.err otherwise
convert(h, input, fromSpace, toSpace, outArg) ==
    LET d == DefaultOut(h, outArg)
        f == [heap |-> vec3Copy(d.heap, input, d.out), out |-> d.out,
              trace |-> << >>, hub |-> FALSE, made |-> d.made, err |-> NoErr]
    IN  IF fromSpace = Undefined THEN Throw(f, ErrFromSpace)
        ELSE IF toSpace = Undefined THEN Throw(f, ErrToSpace)
        ELSE IF fromSpace = toSpace THEN f
        ELSE descend(f, fromSpace, toSpace)

----------------------------------------------------------------------------
(* The caller.  Buffer 1 is the caller's input vector, buffer 2 a second   *)
(* buffer of the caller; each has 3 components or 4 (with alpha).          *)

Alpha == 7

InputVecs ==
    {<<a, b, c>> : a \in 0 .. MaxVal, b \in 0 .. MaxVal, c \in 0 .. MaxVal}

OtherVecs == {<<3, 5, 8>>, <<3, 5, 8, 9>>}

WithAlpha(V) == V \cup {Append(v, Alpha) : v \in V}

CallerBufs == {1, 2}

\* the matrices a caller hands to transform, OKLab_to and OKLab_from
CallerMats ==
    {linear_sRGB_to_XYZ_M, XYZ_to_linear_sRGB_M,
     linear_sRGB_to_LMS_M, LMS_to_linear_sRGB_M}

NoCall(h) ==
    [op |-> "none", input |-> tmp3, outArg |-> << >>,
     from |-> Undefined, to |-> Undefined, mat |-> NoMat,
     pre |-> h, ret |-> << >>, err |-> NoErr, trace |-> << >>,
     hub |-> FALSE, made |-> 0]

\* the record of a finished call of convert
ConvertRecord(h, input, fromSpace, toSpace, outArg) ==
    LET Record(f) ==
            [op |-> "convert", input |-> input, outArg |-> outArg,
             from |-> fromSpace, to |-> toSpace, mat |-> NoMat,
             pre |-> h, ret |-> IF Failed(f) THEN << >> ELSE <<f.out>>,
             err |-> f.err, trace |-> f.trace, hub |-> f.hub, made |-> f.made,
             post |-> f.heap]
    IN  Record(convert(h, input, fromSpace, toSpace, outArg))

\* the record of a finished call of transform, OKLab_to or OKLab_from
KernelRecord(op, h, input, matrix, outArg) ==
    LET d  == DefaultOut(h, outArg)
        h1 == CASE op = "transform" -> transform(d.heap, input, matrix, d.out)
                [] op = "OKLab_to" -> OKLab_to(d.heap, input, matrix, d.out)
                [] op = "OKLab_from" -> OKLab_from(d.heap, input, matrix, d.out)
    IN  [op |-> op, input |-> input, outArg |-> outArg,
         from |-> Undefined, to |-> Undefined, mat |-> matrix,
         pre |-> h, ret |-> <<d.out>>, err |-> NoErr, trace |-> << >>,
         hub |-> FALSE, made |-> d.made, post |-> h1]

Forget(r) == [f \in DOMAIN r \ {"post"} |-> r[f]]

Done(r) ==
    /\ heap' = r.post
    /\ call' = Forget(r)
    /\ prev' = call
    /\ ncalls' = ncalls + 1
    /\ results' = IF r.outArg = << >> /\ r.ret # << >>
                  THEN Append(results, [ref |-> r.ret[1], val |-> r.post[r.ret[1]]])
                  ELSE results

Init ==
    /\ \E v \in WithAlpha(InputVecs), w \in OtherVecs :
          heap = (tmp3 :> <<0, 0, 0>>) @@ (1 :> v) @@ (2 :> w)
    /\ call = NoCall(heap)
    /\ prev = NoCall(heap)
    /\ ncalls = 0
    /\ results = << >>

OutArgs(refs) == {<< >>} \cup {<<r>> : r \in refs}

ConvertCall ==
    /\ ncalls = 0
    /\ \E fromSpace \in SpaceArgs, toSpace \in SpaceArgs,
          outArg \in OutArgs(CallerBufs) :
          Done(ConvertRecord(heap, 1, fromSpace, toSpace, outArg))

\* the caller converts the result of a successful call back, in place
RoundTripCall ==
    /\ ncalls = 1
    /\ call.op = "convert"
    /\ call.err = NoErr
    /\ Done(ConvertRecord(heap, call.ret[1], call.to, call.from, call.ret))

TransformCall ==
    /\ ncalls = 0
    /\ \E m \in CallerMats, outArg \in OutArgs(CallerBufs) :
          Done(KernelRecord("transform", heap, 1, m, outArg))

OKLabToCall ==
    /\ ncalls = 0
    /\ \E m \in CallerMats, outArg \in OutArgs(CallerBufs) :
          Done(KernelRecord("OKLab_to", heap, 1, m, outArg))

OKLabFromCall ==
    /\ ncalls = 0
    /\ \E m \in CallerMats, outArg \in OutArgs(CallerBufs) :
          Done(KernelRecord("OKLab_from", heap, 1, m, outArg))

\* the matrix a caller pairs with m: its inverse in conversion_matrices.js
InverseMat(m) ==
    CASE m = linear_sRGB_to_XYZ_M -> XYZ_to_linear_sRGB_M
      [] m = XYZ_to_linear_sRGB_M -> linear_sRGB_to_XYZ_M
      [] m = linear_sRGB_to_LMS_M -> LMS_to_linear_sRGB_M
      [] m = LMS_to_linear_sRGB_M -> linear_sRGB_to_LMS_M

\* the caller hands the result of OKLab_to to OKLab_from, with the inverse
\* of the matrix
OKLabBackCall ==
    /\ ncalls = 1
    /\ call.op = "OKLab_to"
    /\ \E outArg \in OutArgs(CallerBufs) :
          Done(KernelRecord("OKLab_from", heap, call.ret[1],
                            InverseMat(call.mat), outArg))

Next ==
    \/ ConvertCall
    \/ RoundTripCall
    \/ TransformCall
    \/ OKLabToCall
    \/ OKLabFromCall
    \/ OKLabBackCall

Spec == Init /\ [][Next]_vars

----------------------------------------------------------------------------
(* Sequences of calls that omit out.  The caller passes any vector it      *)
(* holds as input: its own buffer or the result of an earlier call.  The   *)
(* scratch vector tmp3 is private to core.js.                              *)

SeqVecs == {<<1, 0, 1>>, <<1, 1, 0, Alpha>>}

SeqSpaces == {"OKLCH", "sRGB", "ProPhotoRGBLinear"}

CallerRefs == DOMAIN heap \ {tmp3}

InitSeq ==
    /\ \E v \in SeqVecs : heap = (tmp3 :> <<0, 0, 0>>) @@ (1 :> v)
    /\ call = NoCall(heap)
    /\ prev = NoCall(heap)
    /\ ncalls = 0
    /\ results = << >>

ConvertFresh ==
    /\ ncalls < MaxCalls
    /\ \E input \in CallerRefs, fromSpace \in SeqSpaces, toSpace \in SeqSpaces :
          Done(ConvertRecord(heap, input, fromSpace, toSpace, << >>))

TransformFresh ==
    /\ ncalls < MaxCalls
    /\ \E input \in CallerRefs :
          Done(KernelRecord("transform", heap, input, linear_sRGB_to_XYZ_M, << >>))

OKLabToFresh ==
    /\ ncalls < MaxCalls
    /\ \E input \in CallerRefs :
          Done(KernelRecord("OKLab_to", heap, input, LMS_to_linear_sRGB_M, << >>))

OKLabFromFresh ==
    /\ ncalls < MaxCalls
    /\ \E input \in CallerRefs :
          Done(KernelRecord("OKLab_from", heap, input, linear_sRGB_to_LMS_M, << >>))

NextSeq ==
    \/ ConvertFresh
    \/ TransformFresh
    \/ OKLabToFresh
    \/ OKLabFromFresh

SpecSeq == InitSeq /\ [][NextSeq]_vars

----------------------------------------------------------------------------
(* Numbers of util.js and of the text functions of core.js.  A number is   *)
(* an integer n that stands for n / Den, so that the bytes b / 255 and the *)
(* midpoints between them are numbers; One stands for 1.  convert's        *)
(* arithmetic above is taken in Z_P on these integers.                     *)

Den == 510

One == Den

\* the whole number k
Whole(k) == k * Den

MathMin(a, b) == IF a <= b THEN a ELSE b

MathMax(a, b) == IF a >= b THEN a ELSE b

\* Math.round(x) for x = num / den, den > 0: halves go up
MathRound(num, den) == (2 * num + den) \div (2 * den)

\* clamp applies Math.max last: an inverted range gives min
clamp(value, min, max) == MathMax(MathMin(value, max), min)

\* 255 * n is cut to the integer below instead of rounded
floatToByteFloor(n) == clamp((255 * n) \div Den, 0, 255)

\* the byte is returned as an integer 0 .. 255
floatToByte(n) == clamp(MathRound(255 * n, Den), 0, 255)

----------------------------------------------------------------------------
(* Strings.  A string is a sequence of tokens: a literal piece of text or  *)
(* the decimal text of a number.                                           *)

Lit(s) == <<"lit", s, 0>>

Num(n) == <<"num", "", n>>

IsNum(tok) == tok[1] = "num"

----------------------------------------------------------------------------
(* serialize (core.js).  The result is the heap after the call, the string *)
(* returned and the error thrown.                                          *)

ErrInputSpace == <<"must specify an input space">>

\* `${a} ${b} ${c}` with the separator sep between the numbers
Joined(a, b, c, sep) == <<a>> \o sep \o <<b>> \o sep \o <<c>>

\* the copy of the input into tmp3 is left to convert: without a conversion
\* the string is made from what tmp3 held before the call
serializeStaleScratch(h, input, inputSpace, outputSpaceArg) ==
    LET outputSpace ==
            IF outputSpaceArg = Undefined THEN inputSpace ELSE outputSpaceArg
        alpha == IF Len(h[input]) > 3 THEN h[input][4] ELSE One
        f  == IF inputSpace # outputSpace
              THEN convert(h, input, inputSpace, outputSpace, <<tmp3>>)
              ELSE [heap |-> h, err |-> NoErr]
        t  == f.heap[tmp3]
        id == Spaces[outputSpace].id
        alphaSuffix ==
            IF alpha = One THEN << >> ELSE <<Lit(" "), Lit("/"), Lit(" "), Num(alpha)>>
    IN  IF inputSpace = Undefined
        THEN [heap |-> h, str |-> << >>, err |-> ErrInputSpace]
        ELSE IF f.err # NoErr
        THEN [heap |-> f.heap, str |-> << >>, err |-> f.err]
        ELSE IF id = "srgb"
        THEN LET rgb == Joined(Num(Whole(floatToByte(t[1]))),
                               Num(Whole(floatToByte(t[2]))),
                               Num(Whole(floatToByte(t[3]))),
                               <<Lit(","), Lit(" ")>>)
             IN  [heap |-> f.heap, err |-> NoErr,
                  str |-> IF alpha = One
                          THEN <<Lit("rgb"), Lit("(")>> \o rgb \o <<Lit(")")>>
                          ELSE <<Lit("rgba"), Lit("(")>> \o rgb
                               \o <<Lit(","), Lit(" "), Num(alpha), Lit(")")>>]
        ELSE IF id = "oklab" \/ id = "oklch"
        THEN [heap |-> f.heap, err |-> NoErr,
              str |-> <<Lit(id), Lit("("), Num(t[1] * 100), Lit("%"), Lit(" "),
                        Num(t[2]), Lit(" "), Num(t[3])>>
                      \o alphaSuffix \o <<Lit(")")>>]
        ELSE [heap |-> f.heap, err |-> NoErr,
              str |-> <<Lit("color"), Lit("("), Lit(id), Lit(" ")>>
                      \o Joined(Num(t[1]), Num(t[2]), Num(t[3]), <<Lit(" ")>>)
                      \o alphaSuffix \o <<Lit(")")>>]

\* the rgba form is written whenever the input has a 4th component
serializeAlphaWhenGiven(h, input, inputSpace, outputSpaceArg) ==
    LET outputSpace ==
            IF outputSpaceArg = Undefined THEN inputSpace ELSE outputSpaceArg
        alpha == IF Len(h[input]) > 3 THEN h[input][4] ELSE One
        h1 == vec3Copy(h, input, tmp3)
        f  == IF inputSpace # outputSpace
              THEN convert(h1, input, inputSpace, outputSpace, <<tmp3>>)
              ELSE [heap |-> h1, err |-> NoErr]
        t  == f.heap[tmp3]
        id == Spaces[outputSpace].id
        alphaSuffix ==
            IF alpha = One THEN << >> ELSE <<Lit(" "), Lit("/"), Lit(" "), Num(alpha)>>
    IN  IF inputSpace = Undefined
        THEN [heap |-> h, str |-> << >>, err |-> ErrInputSpace]
        ELSE IF f.err # NoErr
        THEN [heap |-> f.heap, str |-> << >>, err |-> f.err]
        ELSE IF id = "srgb"
        THEN LET r == floatToByte(t[1])
                 g == floatToByte(t[2])
                 b == floatToByte(t[3])
                 rgb == Joined(Num(Whole(r)), Num(Whole(g)), Num(Whole(b)),
                               <<Lit(","), Lit(" ")>>)
             IN  [heap |-> f.heap, err |-> NoErr,
                  str |-> IF Len(h[input]) <= 3
                          THEN <<Lit("rgb"), Lit("(")>> \o rgb \o <<Lit(")")>>
                          ELSE <<Lit("rgba"), Lit("(")>> \o rgb
                               \o <<Lit(","), Lit(" "), Num(alpha), Lit(")")>>]
        ELSE IF id = "oklab" \/ id = "oklch"
        THEN [heap |-> f.heap, err |-> NoErr,
              str |-> <<Lit(id), Lit("("), Num(t[1] * 100), Lit("%"), Lit(" "),
                        Num(t[2]), Lit(" "), Num(t[3])>>
                      \o alphaSuffix \o <<Lit(")")>>]
        ELSE [heap |-> f.heap, err |-> NoErr,
              str |-> <<Lit("color"), Lit("("), Lit(id), Lit(" ")>>
                      \o Joined(Num(t[1]), Num(t[2]), Num(t[3]), <<Lit(" ")>>)
                      \o alphaSuffix \o <<Lit(")")>>]

\* the string serialize returns for the color t of tmp3 in the space id
serializeString(t, id, alpha) ==
    LET alphaSuffix ==
            IF alpha = One THEN << >> ELSE <<Lit(" "), Lit("/"), Lit(" "), Num(alpha)>>
    IN  IF id = "srgb"
        THEN LET r == floatToByte(t[1])
                 g == floatToByte(t[2])
                 b == floatToByte(t[3])
                 rgb == Joined(Num(Whole(r)), Num(Whole(g)), Num(Whole(b)),
                               <<Lit(","), Lit(" ")>>)
             IN  IF alpha = One
                 THEN <<Lit("rgb"), Lit("(")>> \o rgb \o <<Lit(")")>>
                 ELSE <<Lit("rgba"), Lit("(")>> \o rgb
                      \o <<Lit(","), Lit(" "), Num(alpha), Lit(")")>>
        ELSE IF id = "oklab" \/ id = "oklch"
        THEN <<Lit(id), Lit("("), Num(t[1] * 100), Lit("%"), Lit(" "),
               Num(t[2]), Lit(" "), Num(t[3])>>
             \o alphaSuffix \o <<Lit(")")>>
        ELSE <<Lit("color"), Lit("("), Lit(id), Lit(" ")>>
             \o Joined(Num(t[1]), Num(t[2]), Num(t[3]), <<Lit(" ")>>)
             \o alphaSuffix \o <<Lit(")")>>

\* the result of serialize once tmp3 holds the color: f is the outcome of the
\* conversion into tmp3
serialized(f, id, alpha) ==
    IF f.err # NoErr
    THEN [heap |-> f.heap, str |-> << >>, err |-> f.err]
    ELSE [heap |-> f.heap, err |-> NoErr,
          str |-> serializeString(f.heap[tmp3], id, alpha)]

\* serialize(input, inputSpace, outputSpace = inputSpace)
serialize(h, input, inputSpace, outputSpaceArg) ==
    LET outputSpace ==
            IF outputSpaceArg = Undefined THEN inputSpace ELSE outputSpaceArg
        alpha == IF Len(h[input]) > 3 THEN h[input][4] ELSE One
    IN  IF inputSpace = Undefined
        THEN [heap |-> h, str |-> << >>, err |-> ErrInputSpace]
        ELSE serialized(IF inputSpace # outputSpace
                        THEN convert(vec3Copy(h, input, tmp3), input, inputSpace,
                                     outputSpace, <<tmp3>>)
                        ELSE [heap |-> vec3Copy(h, input, tmp3), err |-> NoErr],
                        Spaces[outputSpace].id, alpha)

----------------------------------------------------------------------------
(* Hex strings (util.js).  A hex string is a string whose tokens are       *)
(* single characters.                                                      *)

HexDigits ==
    <<"0", "1", "2", "3", "4", "5", "6", "7", "8", "9",
      "a", "b", "c", "d", "e", "f">>

UpperHexDigits == <<"A", "B", "C", "D", "E", "F">>

IsHexDigit(tok) ==
    /\ tok[1] = "lit"
    /\ \/ \E i \in 1 .. 16 : HexDigits[i] = tok[2]
       \/ \E i \in 1 .. 6 : UpperHexDigits[i] = tok[2]

HexValue(tok) ==
    IF \E i \in 1 .. 16 : HexDigits[i] = tok[2]
    THEN (CHOOSE i \in 1 .. 16 : HexDigits[i] = tok[2]) - 1
    ELSE (CHOOSE i \in 1 .. 6 : UpperHexDigits[i] = tok[2]) + 9

\* the length of the longest prefix of str made of hex digits
RECURSIVE HexPrefixLen(_)
HexPrefixLen(str) ==
    IF str = << >> \/ ~IsHexDigit(Head(str)) THEN 0
    ELSE 1 + HexPrefixLen(Tail(str))

RECURSIVE HexNumber(_, _)
\* the value of the hex digits of str after the digits of value acc
HexNumber(str, acc) ==
    IF str = << >> THEN acc
    ELSE HexNumber(Tail(str), 16 * acc + HexValue(Head(str)))

\* parseInt(str, 16) for a string without sign, 0x prefix or leading space:
\* the digits up to the first character that is not one; NaN without a digit
parseInt16(str) ==
    LET n == HexPrefixLen(str)
    IN  [nan |-> n = 0, val |-> HexNumber(SubSeq(str, 1, n), 0)]

\* str.slice(from, to) for 0 <= from <= to
Slice(str, from, to) == SubSeq(str, from + 1, MathMin(to, Len(str)))

\* str.replace(/#/, ""): the first "#" is removed, wherever it is
RemoveFirstHash(str) ==
    IF \E i \in 1 .. Len(str) : str[i] = Lit("#")
    THEN LET i == CHOOSE i \in 1 .. Len(str) :
                      /\ str[i] = Lit("#")
                      /\ \A j \in 1 .. i - 1 : str[j] # Lit("#")
         IN  SubSeq(str, 1, i - 1) \o SubSeq(str, i + 1, Len(str))
    ELSE str

\* the byte b as the number b / 0xff
ByteOver255(b) == Whole(b) \div 255

\* hexToRGB(str, out): NaN >> 16, NaN >> 8 and NaN & 0xff are 0
hexToRGB(h, str, out) ==
    LET hex0 == RemoveFirstHash(str)
        hex  == IF Len(hex0) = 3
                THEN <<hex0[1], hex0[1], hex0[2], hex0[2], hex0[3], hex0[3]>>
                ELSE IF Len(hex0) > 6 THEN Slice(hex0, 0, 6)
                ELSE hex0
        p    == parseInt16(hex)
        rgb  == IF p.nan THEN 0 ELSE p.val
        h1   == Store(h, out, 1, ByteOver255((rgb \div 65536) % 256))
        h2   == Store(h1, out, 2, ByteOver255((rgb \div 256) % 256))
    IN  Store(h2, out, 3, ByteOver255(rgb % 256))

\* n.toString(16) without the padding
ByteToHexNoPad(n) ==
    IF n < 16 THEN <<Lit(HexDigits[n + 1])>>
    ELSE <<Lit(HexDigits[(n \div 16) + 1]), Lit(HexDigits[(n % 16) + 1])>>

\* n.toString(16).padStart(2, "0") for a byte n
ByteToHex(n) ==
    IF n < 16 THEN <<Lit("0"), Lit(HexDigits[n + 1])>>
    ELSE <<Lit(HexDigits[(n \div 16) + 1]), Lit(HexDigits[(n % 16) + 1])>>

RECURSIVE JoinBytes(_)
\* rgb.map(...).join("") over every element of rgb
JoinBytes(rgb) ==
    IF rgb = << >> THEN << >>
    ELSE ByteToHex(floatToByte(Head(rgb))) \o JoinBytes(Tail(rgb))

RGBToHex(rgb) == <<Lit("#")>> \o JoinBytes(rgb)

----------------------------------------------------------------------------
(* deserialize (core.js).  The regular expressions are applied to tokens:  *)
(* a word is a run of tokens between spaces.                               *)

Space == Lit(" ")

RECURSIVE TrimLeft(_)
TrimLeft(str) ==
    IF str # << >> /\ Head(str) = Space THEN TrimLeft(Tail(str)) ELSE str

RECURSIVE TrimRight(_)
TrimRight(str) ==
    IF str # << >> /\ str[Len(str)] = Space
    THEN TrimRight(SubSeq(str, 1, Len(str) - 1))
    ELSE str

\* str.trim()
Trim(str) == TrimRight(TrimLeft(str))

\* toLowerCase on the names that occur in upper case
ToLowerCase(s) ==
    CASE s = "RGB" -> "rgb"
      [] s = "RGBA" -> "rgba"
      [] s = "OKLAB" -> "oklab"
      [] s = "OKLCH" -> "oklch"
      [] s = "COLOR" -> "color"
      [] s = "sRGB" -> "srgb"
      [] OTHER -> s

RECURSIVE SplitOn(_, _)
\* str.split(sep) for a one-token separator: the pieces, empty ones included
SplitOn(str, sep) ==
    IF \E i \in 1 .. Len(str) : str[i] = sep
    THEN LET i == CHOOSE i \in 1 .. Len(str) :
                      /\ str[i] = sep
                      /\ \A j \in 1 .. i - 1 : str[j] # sep
         IN  <<SubSeq(str, 1, i - 1)>> \o SplitOn(SubSeq(str, i + 1, Len(str)), sep)
    ELSE <<str>>

IsWord(w) == w # << >>

\* the maximal runs of tokens without a space
Words(str) == SelectSeq(SplitOn(str, Space), IsWord)

\* parseFloat(str) || 0: the number the string starts with, 0 without one
parseFloatValue(str) ==
    IF str # << >> /\ IsNum(Head(str)) THEN Head(str)[3] ELSE 0

\* str.includes("%")
HasPercent(str) == \E i \in 1 .. Len(str) : str[i] = Lit("%")

\* a percentage is read as the number before the sign
parseColorValueNoPercent(str, is255) ==
    IF is255 THEN clamp(parseFloatValue(str) \div 255, 0, Whole(255))
    ELSE parseFloatValue(str)

\* the division by 0xff and by 100 is exact on the strings used here
parseColorValue(str, is255) ==
    IF is255 THEN clamp(parseFloatValue(str) \div 255, 0, Whole(255))
    ELSE IF HasPercent(str) THEN parseFloatValue(str) \div 100
    ELSE parseFloatValue(str)

stripAlpha(coords) ==
    IF Len(coords) >= 4 /\ coords[4] = One THEN SubSeq(coords, 1, 3)
    ELSE coords

ErrCouldNotParse == <<"could not parse color string">>

ErrColorFunction == <<"could not parse color() function">>

FnNames == {"rgb", "rgba", "oklab", "oklch", "color"}

\* /^(rgb|rgba|oklab|oklch|color)\((.+)\)$/i
MatchesFunction(str) ==
    /\ Len(str) >= 4
    /\ str[1][1] = "lit" /\ ToLowerCase(str[1][2]) \in FnNames
    /\ str[2] = Lit("(")
    /\ str[Len(str)] = Lit(")")

\* the groups of /(\S+)\s+(\S+)\s+([^\s/]+)(?:\s?\/\s?(\S+))?/ on the words
\* w from word number k on: three coordinates and the alpha after a "/"
CoordsStrings(w, k) ==
    IF Len(w) >= k + 4 /\ w[k + 3] = <<Lit("/")>>
    THEN <<w[k], w[k + 1], w[k + 2], w[k + 4]>>
    ELSE <<w[k], w[k + 1], w[k + 2]>>

\* a new array holding coords
NewArray(h, coords) == h @@ (NewRef(h) :> coords)

deserializeHex(h, input) ==
    LET rgbIn     == Slice(input, 0, 7)
        alphaByte == IF Len(input) > 7 THEN parseInt16(Slice(input, 7, 9))
                     ELSE [nan |-> FALSE, val |-> 255]
        alpha     == IF alphaByte.nan THEN One ELSE ByteOver255(alphaByte.val)
        r         == NewRef(h)
        h1        == hexToRGB(vec3(h), rgbIn, r)
    IN  [heap |-> IF alpha # One THEN Store(h1, r, 4, alpha) ELSE h1,
         id |-> "srgb", coords |-> <<r>>, err |-> NoErr]

deserializeCommas(h, content) ==
    LET parts  == SplitOn(content, Lit(","))
        coords == [i \in 1 .. Len(parts) |->
                      parseColorValue(Trim(parts[i]), i - 1 < 3)]
    IN  [heap |-> NewArray(h, stripAlpha(coords)),
         id |-> "srgb", coords |-> <<NewRef(h)>>, err |-> NoErr]

deserializeWords(h, fn, content) ==
    LET w      == Words(content)
        k      == IF fn = "color" THEN 2 ELSE 1
        div255 == fn \notin {"color", "oklab", "oklch"}
        id     == IF fn = "color" THEN ToLowerCase(w[1][1][2])
                  ELSE IF div255 THEN "srgb" ELSE fn
        cs     == CoordsStrings(w, k)
        coords == [i \in 1 .. Len(cs) |->
                      parseColorValue(Trim(cs[i]), div255 /\ i - 1 < 3)]
    IN  IF Len(w) < k + 2
        THEN [heap |-> h, id |-> "", coords |-> << >>, err |-> ErrColorFunction]
        ELSE [heap |-> NewArray(h, stripAlpha(coords)),
              id |-> id, coords |-> <<NewRef(h)>>, err |-> NoErr]

\* deserialize(input) for a string input
deserialize(h, inputArg) ==
    LET input == Trim(inputArg)
    IN  IF input # << >> /\ input[1] = Lit("#") THEN deserializeHex(h, input)
        ELSE IF ~MatchesFunction(input)
        THEN [heap |-> h, id |-> "", coords |-> << >>, err |-> ErrCouldNotParse]
        ELSE LET fn      == ToLowerCase(input[1][2])
                 content == SubSeq(input, 3, Len(input) - 1)
             IN  IF fn \in {"rgb", "rgba"}
                    /\ \E i \in 1 .. Len(content) : content[i] = Lit(",")
                 THEN deserializeCommas(h, content)
                 ELSE deserializeWords(h, fn, content)

----------------------------------------------------------------------------
(* parse (core.js)                                                         *)

\* the spaces of listColorSpaces() that the model holds, in its order
listColorSpaces ==
    <<"XYZ", "OKLab", "OKLCH", "sRGB", "sRGBLinear", "A98RGB", "A98RGBLinear",
      "ProPhotoRGBLinear">>

ErrTargetSpace == <<"must specify a target space to parse into">>

ErrNoSpaceWithId(id) == <<"could not find space with the id", id>>

\* listColorSpaces().find((f) => id === f.id): the first one, if any
FindSpace(id) ==
    LET hits == {i \in 1 .. Len(listColorSpaces) : Spaces[listColorSpaces[i]].id = id}
    IN  IF hits = {} THEN Undefined
        ELSE listColorSpaces[CHOOSE i \in hits : \A j \in hits : i <= j]

\* the end of parse: f is the outcome of convert(out, space, targetSpace, out);
\* alpha is stored, or out is reduced to 3 components
parseStoreAlpha(f, alpha, out) ==
    LET h1 == IF alpha # One THEN Store(f.heap, out, 4, alpha) ELSE f.heap
        h2 == IF alpha = One /\ Len(h1[out]) = 4
              THEN [h1 EXCEPT ![out] = SubSeq(@, 1, 3)]
              ELSE h1
    IN  IF f.err # NoErr
        THEN [heap |-> f.heap, ret |-> << >>, err |-> f.err]
        ELSE [heap |-> h2, ret |-> <<out>>, err |-> NoErr]

\* parse from the result d of deserialize(input) on
parseDeserialized(d, targetSpace, out) ==
    LET space == FindSpace(d.id)
        c     == d.heap[d.coords[1]]
        alpha == IF Len(c) = 4 THEN c[4] ELSE One
    IN  IF d.err # NoErr
        THEN [heap |-> d.heap, ret |-> << >>, err |-> d.err]
        ELSE IF space = Undefined
        THEN [heap |-> d.heap, ret |-> << >>, err |-> ErrNoSpaceWithId(d.id)]
        ELSE parseStoreAlpha(convert(vec3Copy(d.heap, d.coords[1], out), out, space,
                                     targetSpace, <<out>>),
                             alpha, out)

\* everything after the defaults of the parameters have been evaluated
parseInto(h, input, targetSpace, out) ==
    IF targetSpace = Undefined
    THEN [heap |-> h, ret |-> << >>, err |-> ErrTargetSpace]
    ELSE parseDeserialized(deserialize(h, input), targetSpace, out)

\* parse(input, targetSpace, out = vec3())
parse(h, input, targetSpace, outArg) ==
    LET d == DefaultOut(h, outArg)
    IN  parseInto(d.heap, input, targetSpace, d.out)

----------------------------------------------------------------------------
(* Sequences of calls of the text functions and of convert.  The caller    *)
(* serializes its vectors, and deserializes or parses the string it got.   *)

\* [0, 0.5, 1], [1, 0, 0] and an out-of-range [2, -1/255, 1/255]
TextVecs == {<<0, 255, One>>, <<One, 0, 0>>, <<2 * One, -2, 2>>}

\* alpha 1 and alpha 0.5
TextAlphas == {One, 255}

TextSpaces == {"sRGB", "OKLCH", "OKLab", "sRGBLinear", "Bare"}

TextTargets == {"sRGB", "OKLCH"}

MaxTextCalls == 2

TextRecord(op, h, input, arg, fromSpace, toSpace, outArg, r) ==
    [op |-> op, input |-> input, outArg |-> outArg,
     from |-> fromSpace, to |-> toSpace, mat |-> NoMat,
     pre |-> h, ret |-> r.ret, err |-> r.err, trace |-> << >>,
     hub |-> FALSE, made |-> 0, arg |-> arg, str |-> r.str, id |-> r.id,
     post |-> r.heap]

SerializeRecord(h, input, inputSpace, outputSpace) ==
    LET Record(r) ==
            TextRecord("serialize", h, input, << >>, inputSpace, outputSpace, << >>,
                       [heap |-> r.heap, ret |-> << >>, err |-> r.err,
                        str |-> r.str, id |-> ""])
    IN  Record(serialize(h, input, inputSpace, outputSpace))

DeserializeRecord(h, str) ==
    LET Record(r) ==
            TextRecord("deserialize", h, tmp3, str, Undefined, Undefined, << >>,
                       [heap |-> r.heap, ret |-> r.coords, err |-> r.err,
                        str |-> << >>, id |-> r.id])
    IN  Record(deserialize(h, str))

ParseRecord(h, str, targetSpace, outArg) ==
    LET Record(r) ==
            TextRecord("parse", h, tmp3, str, Undefined, targetSpace, outArg,
                       [heap |-> r.heap, ret |-> r.ret, err |-> r.err,
                        str |-> << >>, id |-> ""])
    IN  Record(parse(h, str, targetSpace, outArg))

DoneText(r) ==
    /\ heap' = r.post
    /\ call' = Forget(r)
    /\ prev' = call
    /\ ncalls' = ncalls + 1
    /\ UNCHANGED results

InitText ==
    /\ \E v \in TextVecs \cup {Append(w, a) : w \in TextVecs, a \in TextAlphas} :
          heap = (tmp3 :> <<0, 0, 0>>) @@ (1 :> v) @@ (2 :> <<2, 4, 6, 255>>)
    /\ call = NoCall(heap)
    /\ prev = NoCall(heap)
    /\ ncalls = 0
    /\ results = << >>

SerializeCall ==
    /\ ncalls < MaxTextCalls
    /\ \E input \in CallerBufs, inputSpace \in TextSpaces \cup {Undefined},
          outputSpace \in TextTargets \cup {Undefined} :
          DoneText(SerializeRecord(heap, input, inputSpace, outputSpace))

DeserializeCall ==
    /\ ncalls < MaxTextCalls
    /\ call.op = "serialize" /\ call.err = NoErr
    /\ DoneText(DeserializeRecord(heap, call.str))

ParseCall ==
    /\ ncalls < MaxTextCalls
    /\ call.op = "serialize" /\ call.err = NoErr
    /\ \E targetSpace \in TextTargets \cup {Undefined}, outArg \in {<< >>, <<2>>} :
          DoneText(ParseRecord(heap, call.str, targetSpace, outArg))

ConvertBetween ==
    /\ ncalls < MaxTextCalls
    /\ \E fromSpace \in TextTargets, toSpace \in TextTargets,
          outArg \in {<< >>, <<2>>} :
          DoneText(ConvertRecord(heap, 1, fromSpace, toSpace, outArg))

KernelBetween ==
    /\ ncalls < MaxTextCalls
    /\ \E op \in {"transform", "OKLab_to", "OKLab_from"}, outArg \in {<< >>, <<2>>} :
          DoneText(KernelRecord(op, heap, 1, linear_sRGB_to_LMS_M, outArg))

NextText ==
    \/ SerializeCall
    \/ DeserializeCall
    \/ ParseCall
    \/ ConvertBetween
    \/ KernelBetween

SpecText == InitText /\ [][NextText]_vars

----------------------------------------------------------------------------
(* RGB utilities (util.js)                                                 *)

\* the bounds themselves count as outside
isRGBInGamutStrict(h, lrgb, ep) ==
    LET r == h[lrgb][1]
        g == h[lrgb][2]
        b == h[lrgb][3]
    IN  /\ r > -ep
        /\ r < One + ep
        /\ g > -ep
        /\ g < One + ep
        /\ b > -ep
        /\ b < One + ep

\* isRGBInGamut(lrgb, ep) with ep given by the caller
isRGBInGamut(h, lrgb, ep) ==
    LET r == h[lrgb][1]
        g == h[lrgb][2]
        b == h[lrgb][3]
    IN  /\ r >= -ep
        /\ r <= One + ep
        /\ g >= -ep
        /\ g <= One + ep
        /\ b >= -ep
        /\ b <= One + ep

\* only values above 1 are clipped
clampedRGBUpperOnly(h, rgb, out) ==
    LET h1 == Store(h, out, 1, MathMin(h[rgb][1], One))
        h2 == Store(h1, out, 2, MathMin(h1[rgb][2], One))
    IN  Store(h2, out, 3, MathMin(h2[rgb][3], One))

\* clampedRGB(rgb, out)
clampedRGB(h, rgb, out) ==
    LET h1 == Store(h, out, 1, clamp(h[rgb][1], 0, One))
        h2 == Store(h1, out, 2, clamp(h1[rgb][2], 0, One))
    IN  Store(h2, out, 3, clamp(h2[rgb][3], 0, One))

----------------------------------------------------------------------------
(* gamutMapOKLCH (gamut.js), from section 4.4 of the specification.  The   *)
(* numbers that the cusp finder, the mapping function and the conversions  *)
(* compute are given by the record outcome: rgb is the input in the        *)
(* gamut's RGB space, mapped the OKLCH color the mapping function leaves,  *)
(* converted that color in the target space.                               *)

sRGBGamut == [space |-> "sRGB"]

A98RGBGamut == [space |-> "A98RGB"]

Gamuts == {sRGBGamut, A98RGBGamut}

Mappings ==
    {"MapToL", "MapToGray", "MapToCuspL", "MapToAdaptiveGray", "MapToAdaptiveCuspL"}

\* the smallest positive number stands for the default epsilon 0.000075
GAMUT_EPSILON == 1

\* targetSpace is the gamut's RGB space or its linear base
RGBInGamut(gamut, targetSpace) == BaseOf(targetSpace) = BaseOf(gamut.space)

\* targetSpace is OKLab or a space derived from it
OKLabFamily(targetSpace) == Spaces[BaseOf(targetSpace)].id = "oklab"

gamutMapOKLCH(h, oklch, gamut, targetSpaceArg, outArg, mapping, outcome) ==
    LET targetSpace ==
            IF targetSpaceArg = Undefined THEN gamut.space ELSE targetSpaceArg
        d       == DefaultOut(h, outArg)
        scratch == NewRef(d.heap)
        inside  == isRGBInGamut(d.heap @@ (scratch :> outcome.rgb), scratch,
                                GAMUT_EPSILON)
        lch     == IF inside THEN SubSeq(h[oklch], 1, 3) ELSE outcome.mapped
        value   == IF targetSpace = "OKLCH" THEN lch ELSE outcome.converted
        h1      == Store(Store(Store(d.heap, d.out, 1, value[1]),
                               d.out, 2, value[2]), d.out, 3, value[3])
    IN  [heap |-> IF RGBInGamut(gamut, targetSpace)
                  THEN clampedRGB(h1, d.out, d.out)
                  ELSE h1,
         out |-> d.out, inside |-> inside]

----------------------------------------------------------------------------
(* Calls of the RGB utilities and of gamutMapOKLCH                         *)

\* -0.5, 0, 0.5, 1 and 1.5
GamutVals == {-255, 0, 255, One, One + 255}

GamutVecs ==
    {<<a, b, c>> : a \in {-255, 255, One + 255}, b \in {0, One, One + 2}, c \in {255, -1}}

\* the epsilons a caller passes: 0, 1/510 and 0.5
Epsilons == {0, 1, 255}

GamutRecord(h, oklch, gamut, targetSpace, outArg, mapping, outcome) ==
    LET r == gamutMapOKLCH(h, oklch, gamut, targetSpace, outArg, mapping, outcome)
    IN  [op |-> "gamutMapOKLCH", input |-> oklch, outArg |-> outArg,
         gamut |-> gamut, to |-> targetSpace, mapping |-> mapping,
         outcome |-> outcome, inside |-> r.inside,
         pre |-> h, ret |-> <<r.out>>, post |-> r.heap]

InGamutRecord(h, lrgb, ep) ==
    [op |-> "isRGBInGamut", input |-> lrgb, ep |-> ep,
     inside |-> isRGBInGamut(h, lrgb, ep), pre |-> h, post |-> h]

ClampedRecord(h, rgb, outArg) ==
    LET d == DefaultOut(h, outArg)
    IN  [op |-> "clampedRGB", input |-> rgb, outArg |-> outArg,
         pre |-> h, ret |-> <<d.out>>, post |-> clampedRGB(d.heap, rgb, d.out)]

\* the numbers given to floatToByte: every b / 255, the numbers next to 0,
\* 0.5 and 1, and numbers below 0 and above 1
FloatInputs ==
    {2 * b : b \in 0 .. 255}
        \cup {-One, -255, -1, 1, 3, 254, 255, 256, One - 1, One + 1, 2 * One}

FloatToByteRecord(h, n) ==
    [op |-> "floatToByte", n |-> n, byte |-> floatToByte(n), pre |-> h, post |-> h]

\* the bytes of the colors given to RGBToHex
ByteSamples == {0, 9, 15, 16, 171, 255}

\* "abc", "#abc", "#fff" and "0F9"
ShortHexes ==
    {<<Lit("a"), Lit("b"), Lit("c")>>,
     <<Lit("#"), Lit("a"), Lit("b"), Lit("c")>>,
     <<Lit("#"), Lit("f"), Lit("f"), Lit("f")>>,
     <<Lit("0"), Lit("F"), Lit("9")>>}

RGBToHexRecord(h, rgb) ==
    [op |-> "RGBToHex", rgb |-> rgb, str |-> RGBToHex(rgb), pre |-> h, post |-> h]

HexToRGBRecord(h, str, outArg) ==
    LET d == DefaultOut(h, outArg)
    IN  [op |-> "hexToRGB", arg |-> str, outArg |-> outArg,
         pre |-> h, ret |-> <<d.out>>, post |-> hexToRGB(d.heap, str, d.out)]

InitGamut ==
    /\ \E v \in GamutVecs :
          heap = (tmp3 :> <<0, 0, 0>>) @@ (1 :> v) @@ (2 :> <<3, 5, 8, 255>>)
    /\ call = NoCall(heap)
    /\ prev = NoCall(heap)
    /\ ncalls = 0
    /\ results = << >>

GamutMapCall ==
    /\ ncalls = 0
    /\ \E gamut \in Gamuts, mapping \in Mappings,
          targetSpace \in {Undefined, "sRGB", "sRGBLinear", "A98RGB",
                           "A98RGBLinear", "OKLab", "OKLCH"},
          outArg \in OutArgs(CallerBufs),
          x \in GamutVals, y \in {0, One + 255}, inside \in BOOLEAN :
          /\ targetSpace # Undefined
                => (RGBInGamut(gamut, targetSpace) \/ OKLabFamily(targetSpace))
          /\ DoneText(GamutRecord(heap, 1, gamut, targetSpace, outArg, mapping,
                 [rgb |-> IF inside THEN <<0, One, 255>> ELSE <<x, y, 255>>,
                  mapped |-> <<255, y, heap[1][3]>>,
                  converted |-> <<x, y, 255>>]))

InGamutCall ==
    /\ ncalls = 0
    /\ \E ep \in Epsilons : DoneText(InGamutRecord(heap, 1, ep))

ClampedCall ==
    /\ ncalls = 0
    /\ \E outArg \in OutArgs(CallerBufs) : DoneText(ClampedRecord(heap, 1, outArg))

FloatToByteCall ==
    /\ ncalls = 0
    /\ \E n \in FloatInputs : DoneText(FloatToByteRecord(heap, n))

RGBToHexCall ==
    /\ ncalls = 0
    /\ \E r \in ByteSamples, g \in ByteSamples, b \in ByteSamples :
          DoneText(RGBToHexRecord(heap, <<ByteOver255(r), ByteOver255(g), ByteOver255(b)>>))

\* hexToRGB of a shorthand, or of the string RGBToHex has just returned, with
\* and without its "#"
HexToRGBCall ==
    /\ ncalls = 0 \/ (ncalls = 1 /\ call.op = "RGBToHex")
    /\ \E outArg \in OutArgs(CallerBufs),
          str \in ShortHexes
                    \cup (IF call.op = "RGBToHex" THEN {call.str, Tail(call.str)} ELSE {}) :
          DoneText(HexToRGBRecord(heap, str, outArg))

NextGamut ==
    \/ GamutMapCall
    \/ InGamutCall
    \/ ClampedCall
    \/ FloatToByteCall
    \/ RGBToHexCall
    \/ HexToRGBCall

SpecGamut == InitGamut /\ [][NextGamut]_vars

----------------------------------------------------------------------------
(* Angles (util.js).  An angle is an integer number of degrees; the result *)
(* of lerpAngle is a number n / Den of degrees.                            *)

\* a % n of JavaScript for n > 0: the remainder has the sign of the dividend
JsRem(a, n) == IF a >= 0 THEN a % n ELSE -((-a) % n)

\* the remainder alone: negative for a negative angle
constrainAngleRemainderOnly(angle) == JsRem(angle, 360)

\* constrainAngle(angle)
constrainAngle(angle) == JsRem(JsRem(angle, 360) + 360, 360)

\* the difference is reduced modulo 360 and not folded onto the shorter arc
deltaAngleNoFold(a0, a1) == JsRem(a1 - a0, 360)

\* deltaAngle(a0, a1)
deltaAngle(a0, a1) ==
    LET da == JsRem(a1 - a0, 360)
    IN  JsRem(2 * da, 360) - da

\* lerpAngle(a0, a1, t) for t = t / Den
lerpAngle(a0, a1, t) == Whole(a0) + deltaAngle(a0, a1) * t

----------------------------------------------------------------------------
(* Calls of the angle functions                                            *)

MaxAngle == 400

\* the second angle, and the angle given to constrainAngle
Angles == -MaxAngle .. MaxAngle

\* the first angle: below -360, on and next to the multiples of 180, above 720
StartAngles == {-370, -180, 0, 1, 90, 359, 725}

\* the factors 0, 0.5 and 1
Factors == {0, 255, One}

InitAngle ==
    /\ heap = (tmp3 :> <<0, 0, 0>>)
    /\ call = NoCall(heap)
    /\ prev = NoCall(heap)
    /\ ncalls = 0
    /\ results = << >>

DeltaAngleCall ==
    /\ ncalls = 0
    /\ \E a0 \in StartAngles, a1 \in Angles :
          DoneText([op |-> "deltaAngle", a0 |-> a0, a1 |-> a1,
                    value |-> deltaAngle(a0, a1), pre |-> heap, post |-> heap])

LerpAngleCall ==
    /\ ncalls = 0
    /\ \E a0 \in StartAngles, a1 \in Angles, t \in Factors :
          DoneText([op |-> "lerpAngle", a0 |-> a0, a1 |-> a1, t |-> t,
                    value |-> lerpAngle(a0, a1, t), pre |-> heap, post |-> heap])

ConstrainAngleCall ==
    /\ ncalls = 0
    /\ \E angle \in Angles :
          DoneText([op |-> "constrainAngle", angle |-> angle,
                    value |-> constrainAngle(angle), pre |-> heap, post |-> heap])

NextAngle ==
    \/ DeltaAngleCall
    \/ LerpAngleCall
    \/ ConstrainAngleCall

SpecAngle == InitAngle /\ [][NextAngle]_vars

----------------------------------------------------------------------------
(* deserialize on rgb() / rgba() strings written by the caller: any number *)
(* may stand in a channel.                                                 *)

\* the numbers written in the three channels
ChannelTexts == {-20, 0, 51, 255, 300}

\* the alpha written, in units of 1 / Den; << >> when the string has no alpha
AlphaTexts == {<< >>, <<255>>, <<One>>}

\* "rgb(r, g, b)" and "rgba(r, g, b, a)"
ByteStringCommas(r, g, b, a) ==
    LET rgb == Joined(Num(Whole(r)), Num(Whole(g)), Num(Whole(b)),
                      <<Lit(","), Lit(" ")>>)
    IN  IF a = << >>
        THEN <<Lit("rgb"), Lit("(")>> \o rgb \o <<Lit(")")>>
        ELSE <<Lit("rgba"), Lit("(")>> \o rgb
             \o <<Lit(","), Lit(" "), Num(a[1]), Lit(")")>>

\* "rgb(r g b)" and "rgb(r g b / a)"
ByteStringSpaces(r, g, b, a) ==
    <<Lit("rgb"), Lit("(")>>
    \o Joined(Num(Whole(r)), Num(Whole(g)), Num(Whole(b)), <<Lit(" ")>>)
    \o (IF a = << >> THEN << >>
        ELSE <<Lit(" "), Lit("/"), Lit(" "), Num(a[1])>>)
    \o <<Lit(")")>>

InitBytes ==
    /\ heap = (tmp3 :> <<0, 0, 0>>)
    /\ call = NoCall(heap)
    /\ prev = NoCall(heap)
    /\ ncalls = 0
    /\ results = << >>

DeserializeCommasCall ==
    /\ ncalls = 0
    /\ \E r \in ChannelTexts, g \in ChannelTexts, b \in ChannelTexts,
          a \in AlphaTexts :
          DoneText(DeserializeRecord(heap, ByteStringCommas(r, g, b, a)))

DeserializeSpacesCall ==
    /\ ncalls = 0
    /\ \E r \in ChannelTexts, g \in ChannelTexts, b \in ChannelTexts,
          a \in AlphaTexts :
          DoneText(DeserializeRecord(heap, ByteStringSpaces(r, g, b, a)))

NextBytes ==
    \/ DeserializeCommasCall
    \/ DeserializeSpacesCall

SpecBytes == InitBytes /\ [][NextBytes]_vars

----------------------------------------------------------------------------
(* Vocabulary of the properties *)

\* the three coordinates of a vector
Coords(v) == SubSeq(v, 1, 3)

IsConvert == call.op = "convert"

Returned == call.ret # << >>

\* the value of input before the call and of the returned buffer after it
InputBefore(c) == Coords(c.pre[c.input])

Result == Coords(heap[call.ret[1]])

InverseKind(k) ==
    CASE k = "toBase" -> "fromBase"
      [] k = "fromBase" -> "toBase"
      [] k = "toXYZ_M" -> "fromXYZ_M"
      [] k = "fromXYZ_M" -> "toXYZ_M"
      [] k = "toXYZ" -> "fromXYZ"
      [] k = "fromXYZ" -> "toXYZ"
      [] k = "adapt.to" -> "adapt.from"
      [] k = "adapt.from" -> "adapt.to"
      [] k = "OKLab_to" -> "OKLab_from"
      [] k = "OKLab_from" -> "OKLab_to"

\* the steps of t in reverse order, each replaced by its inverse
ReverseInverse(t) ==
    [i \in 1 .. Len(t) |->
        <<InverseKind(t[Len(t) + 1 - i][1]), t[Len(t) + 1 - i][2]>>]

\* the call is the way back of the successful call before it
IsRoundTrip == ncalls = 2 /\ IsConvert /\ prev.op = "convert"

----------------------------------------------------------------------------
(* C1: Identity.  For every descriptor S, with or without a base, a call   *)
(* convert(x, S, S, out) applies no step at all and returns out with       *)
(* out[0..2] equal to x[0..2].                                             *)

C1_Identity ==
    (IsConvert /\ call.from # Undefined /\ call.from = call.to)
        => /\ call.err = NoErr
           /\ Returned
           /\ call.trace = << >>
           /\ call.made = Len(call.ret) - Len(call.outArg)
           /\ Result = InputBefore(call)

\* an identity call on a derived space, into a second buffer that held
\* something else
C1_Witness ==
    /\ IsConvert /\ ncalls = 1
    /\ call.from = "sRGB" /\ call.to = "sRGB"
    /\ call.outArg = <<2>>
    /\ Coords(call.pre[2]) # InputBefore(call)
    /\ Result = InputBefore(call)

----------------------------------------------------------------------------
(* C2: Round trip.  As stated: whenever convert(x, A, B) succeeds, the     *)
(* conversion of its result from B back to A succeeds too, returns x, and  *)
(* executes the steps of A -> B in reverse order, each replaced by its     *)
(* inverse.                                                                *)

Paired(n) ==
    LET S == Spaces[n]
    IN  /\ Has(S.toXYZ_M) = Has(S.fromXYZ_M)
        /\ Has(S.toLMS_M) = Has(S.fromLMS_M)
        /\ (S.toXYZ = NoFn) = (S.fromXYZ = NoFn)
        /\ S.base # NoBase => (S.toBase # NoFn /\ S.fromBase # NoFn)

PairedChain(n) == Paired(n) /\ Paired(BaseOf(n))

\* two different base descriptors that both carry the id "oklab"
BothOKLab(a, b) ==
    /\ BaseOf(a) # BaseOf(b)
    /\ Spaces[BaseOf(a)].id = "oklab"
    /\ Spaces[BaseOf(b)].id = "oklab"

(* C2 as amended: the same, for pairs of descriptors that define each of   *)
(* their transforms together with its inverse and whose base descriptors   *)
(* do not both carry the id "oklab".                                       *)

----------------------------------------------------------------------------
(* The steps as functions of values, for comparison with what the calls    *)
(* leave in the buffers.                                                   *)

MatVec(M, v) == <<dot3(v, M[1]), dot3(v, M[2]), dot3(v, M[3])>>

Cubed(v) == <<cube(v[1]), cube(v[2]), cube(v[3])>>

Cbrted(v) == <<cbrt(v[1]), cbrt(v[2]), cbrt(v[3])>>

ToOKLabValue(M, v) == MatVec(LMS_to_OKLab_M, Cbrted(MatVec(M, v)))

FromOKLabValue(M, v) == MatVec(M, Cubed(MatVec(OKLab_to_LMS_M, v)))

\* the value fn gives for v when its input and out are two separate vectors
FnValue(fn, v) == ApplyFn(fn, (1 :> v) @@ (2 :> <<0, 0, 0>>), 1, 2)[2]

StepValue(step, v) ==
    LET S == Spaces[step[2]]
        k == step[1]
    IN  CASE k = "toBase" -> FnValue(S.toBase, v)
          [] k = "fromBase" -> FnValue(S.fromBase, v)
          [] k = "toXYZ" -> FnValue(S.toXYZ, v)
          [] k = "fromXYZ" -> FnValue(S.fromXYZ, v)
          [] k = "toXYZ_M" -> MatVec(S.toXYZ_M, v)
          [] k = "fromXYZ_M" -> MatVec(S.fromXYZ_M, v)
          [] k = "adapt.to" -> MatVec(S.adapt.to, v)
          [] k = "adapt.from" -> MatVec(S.adapt.from, v)
          [] k = "OKLab_to" -> FromOKLabValue(S.fromLMS_M, v)
          [] k = "OKLab_from" -> ToOKLabValue(S.toLMS_M, v)

RECURSIVE TraceValue(_, _)
\* the steps of t applied to v, first step first
TraceValue(t, v) ==
    IF t = << >> THEN v
    ELSE TraceValue(Tail(t), StepValue(Head(t), v))

KernelValue(op, M, v) ==
    CASE op = "transform" -> MatVec(M, v)
      [] op = "OKLab_to" -> FromOKLabValue(M, v)
      [] op = "OKLab_from" -> ToOKLabValue(M, v)

IsKernel == call.op \in {"transform", "OKLab_to", "OKLab_from"}

Aliased == call.outArg = <<call.input>>

----------------------------------------------------------------------------
(* C3: In-place conversion.  A call convert(v, A, B, v) whose out is its   *)
(* input leaves in v the three values that the same call with a fresh out  *)
(* returns, on every route, and these are the values of the steps taken as *)
(* functions of their whole input; so are the results of transform,        *)
(* OKLab_to and OKLab_from called in place.                                *)

C3_InPlace ==
    /\ (IsConvert /\ Aliased)
          => LET fresh == convert(call.pre, call.input, call.from, call.to, << >>)
             IN  /\ fresh.err = call.err
                 /\ fresh.trace = call.trace
                 /\ Returned
                      => /\ Result = Coords(fresh.heap[fresh.out])
                         /\ Result = TraceValue(call.trace, InputBefore(call))
    /\ (IsKernel /\ Aliased)
          => Result = KernelValue(call.op, call.mat, InputBefore(call))

\* sRGB -> ProPhotoRGBLinear in place: base step, hub with adaptation
C3_Witness ==
    /\ IsConvert /\ Aliased /\ Returned
    /\ call.from = "sRGB" /\ call.to = "ProPhotoRGBLinear"
    /\ Len(call.trace) = 4
    /\ Result # InputBefore(call)
    /\ Result = TraceValue(call.trace, InputBefore(call))

----------------------------------------------------------------------------
(* C4: When the caller supplies out, convert creates no vector, on any     *)
(* route and also when it throws, and a call that returns returns the      *)
(* caller's buffer, which then holds the result.                           *)

C4_WritesAndReturnsOut ==
    (IsConvert /\ call.outArg # << >>)
        => /\ call.made = 0
           /\ DOMAIN heap = DOMAIN call.pre
           /\ Returned
                => /\ call.ret = call.outArg
                   /\ Result = TraceValue(call.trace, InputBefore(call))

\* sRGB -> OKLCH into the caller's second buffer
C4_Witness ==
    /\ IsConvert /\ Returned
    /\ call.from = "sRGB" /\ call.to = "OKLCH"
    /\ call.outArg = <<2>> /\ call.ret = <<2>>
    /\ Len(call.trace) = 3
    /\ Result # Coords(call.pre[2])

----------------------------------------------------------------------------
(* C5: When out is omitted, convert, transform, OKLab_to and OKLab_from    *)
(* return a buffer that did not exist before the call (so it is not the    *)
(* input, not tmp3 and not an earlier result), and through any sequence of *)
(* such calls every earlier result keeps the value it was returned with.   *)

C5_FreshResult ==
    /\ (call.op # "none" /\ call.outArg = << >> /\ Returned)
          => /\ call.ret[1] \notin DOMAIN call.pre
             /\ call.ret[1] # tmp3
             /\ call.ret[1] # call.input
             /\ call.made = 1
    /\ \A i \in 1 .. Len(results) : heap[results[i].ref] = results[i].val
    /\ \A i, j \in 1 .. Len(results) : i # j => results[i].ref # results[j].ref

\* three calls, the later ones reading earlier results, and three
\* different result buffers
C5_Witness ==
    /\ Len(results) = 3
    /\ call.op = "OKLab_to" /\ prev.op = "convert"
    /\ call.input = prev.ret[1]
    /\ heap[results[3].ref] # heap[results[2].ref]

----------------------------------------------------------------------------
(* C6: convert reads and writes indices 0..2 only: the length of out and   *)
(* its 4th component, if it has one, are after the call (returned or       *)
(* thrown) what they were before it.                                       *)

OutBuf == call.outArg[1]

C6_AlphaPreserved ==
    (IsConvert /\ call.outArg # << >>)
        => /\ Len(heap[OutBuf]) = Len(call.pre[OutBuf])
           /\ Len(heap[OutBuf]) = 4 => heap[OutBuf][4] = call.pre[OutBuf][4]

\* a 4-component input converted in place: the coordinates change, alpha
\* stays; and a 4-component input converted into a 3-component out
C6_Witness ==
    /\ IsConvert /\ Returned /\ Aliased
    /\ Len(call.pre[call.input]) = 4
    /\ Result # InputBefore(call)
    /\ heap[OutBuf][4] = Alpha

----------------------------------------------------------------------------
(* C7: Missing argument.  A call without fromSpace throws the fromSpace    *)
(* error, also when toSpace is missing too; a call with fromSpace and      *)
(* without toSpace throws the toSpace error.  Both are thrown before any   *)
(* step and before the identity fast path, and nothing is returned.        *)

C7_MissingArgument ==
    IsConvert
        => /\ call.from = Undefined
                => (call.err = ErrFromSpace /\ ~Returned /\ call.trace = << >>)
           /\ (call.from # Undefined /\ call.to = Undefined)
                => (call.err = ErrToSpace /\ ~Returned /\ call.trace = << >>)

\* convert(x, undefined, undefined)
C7_Witness ==
    /\ IsConvert
    /\ call.from = Undefined /\ call.to = Undefined
    /\ call.err = ErrFromSpace /\ ~Returned

----------------------------------------------------------------------------
(* C8: Unsupported depth.  As stated: every call in which                  *)
(* fromSpace.base.base or toSpace.base.base is set throws the depth error  *)
(* and returns nothing, whatever the other argument is.                    *)

HasBase(n) == Spaces[n].base # NoBase

\* n.base.base is set
DeepSpace(n) == n # Undefined /\ HasBase(n) /\ HasBase(Spaces[n].base)

C8_DepthWhateverTheOther ==
    (IsConvert /\ (DeepSpace(call.from) \/ DeepSpace(call.to)))
        => (call.err = ErrDepth /\ ~Returned)

(* C8 as amended: the depth error is thrown when both spaces are given,    *)
(* they are different descriptors, and fromSpace, if it has a base, has a  *)
(* toBase function; a call with fromSpace the same descriptor as toSpace   *)
(* returns the copy of the input even when that descriptor has depth 2.    *)

C8_Depth ==
    (IsConvert /\ (DeepSpace(call.from) \/ DeepSpace(call.to))
               /\ call.from # Undefined /\ call.to # Undefined)
        => /\ (call.from # call.to
                 /\ (HasBase(call.from) => Spaces[call.from].toBase # NoFn))
                => (call.err = ErrDepth /\ ~Returned)
           /\ call.from = call.to
                => (call.err = NoErr /\ Returned /\ call.trace = << >>)

\* a depth-2 source with a depth-1 target
C8_Witness ==
    /\ IsConvert
    /\ call.from = "Deep" /\ call.to = "OKLCH"
    /\ call.err = ErrDepth /\ ~Returned

----------------------------------------------------------------------------
(* C9: Missing transform.  As stated: on the XYZ hub path a base-resolved  *)
(* source that is not XYZ and lacks toXYZ_M makes convert throw the        *)
(* missing-transform error naming the source; a base-resolved target that  *)
(* is neither XYZ nor OKLab and lacks fromXYZ_M makes it throw the error   *)
(* naming the target; nothing is returned.                                 *)

Source == Spaces[BaseOf(call.from)]

Target == Spaces[BaseOf(call.to)]

C9_MissingMatrixAlwaysThrows ==
    (IsConvert /\ call.hub)
        => /\ (Source.id # "xyz" /\ ~Has(Source.toXYZ_M))
                => (call.err = ErrNoToXYZ(BaseOf(call.from)) /\ ~Returned)
           /\ (Target.id \notin {"xyz", "oklab"} /\ ~Has(Target.fromXYZ_M))
                => (call.err = ErrNoFromXYZ(BaseOf(call.to)) /\ ~Returned)

(* C9 as amended: the source error is thrown when the source's id is       *)
(* neither "xyz" nor "oklab" (an OKLab source enters the hub already       *)
(* converted to XYZ) and it has neither toXYZ nor toXYZ_M; the target      *)
(* error is thrown when the source error is not, the target's id is not    *)
(* "xyz", the target is not reached by the OKLab bridge, and it has        *)
(* neither fromXYZ nor fromXYZ_M.  No other call on the hub path throws.   *)

SourceLacks ==
    /\ Source.id \notin {"xyz", "oklab"}
    /\ Source.toXYZ = NoFn
    /\ ~Has(Source.toXYZ_M)

TargetLacks ==
    /\ Target.id # "xyz"
    /\ ~(Target.id = "oklab" /\ Source.id # "oklab")
    /\ Target.fromXYZ = NoFn
    /\ ~Has(Target.fromXYZ_M)

C9_MissingTransform ==
    (IsConvert /\ call.hub)
        => /\ SourceLacks
                => (call.err = ErrNoToXYZ(BaseOf(call.from)) /\ ~Returned)
           /\ (~SourceLacks /\ TargetLacks)
                => (call.err = ErrNoFromXYZ(BaseOf(call.to)) /\ ~Returned)
           /\ (~SourceLacks /\ ~TargetLacks)
                => call.err \in {NoErr, ErrNoFromBase(BaseOf(call.to), call.to)}

\* a source without any transform, after the base step of a derived target
\* has been looked up
C9_Witness ==
    /\ IsConvert /\ call.hub
    /\ call.from = "Bare" /\ call.to = "sRGB"
    /\ call.err = ErrNoToXYZ("Bare") /\ ~Returned

----------------------------------------------------------------------------
(* C10: Invalid derived-space link.  As stated: when toSpace has a base    *)
(* but no fromBase and fromSpace differs from toSpace, convert throws the  *)
(* "could not transform <base id> to <space id>" error and returns         *)
(* nothing; when fromBase exists it is the last step, after all hub steps. *)

NoFromBaseCall ==
    /\ IsConvert
    /\ call.to # Undefined
    /\ HasBase(call.to) /\ Spaces[call.to].base # call.to
    /\ Spaces[call.to].fromBase = NoFn
    /\ call.from # call.to

FromBaseIsLast ==
    (IsConvert /\ Returned /\ call.from # call.to /\ HasBase(call.to))
        => /\ call.trace # << >>
           /\ call.trace[Len(call.trace)] = <<"fromBase", call.to>>
           /\ \A i \in 1 .. Len(call.trace) - 1 : call.trace[i][1] # "fromBase"

C10_NoFromBaseAlwaysThisError ==
    /\ NoFromBaseCall
          => (call.err = ErrNoFromBase(BaseOf(call.to), call.to) /\ ~Returned)
    /\ FromBaseIsLast

(* C10 as amended: such a call never returns a result, and the error it    *)
(* throws is the "could not transform" error whenever no earlier check of  *)
(* convert throws: fromSpace is given and has a toBase function if it has  *)
(* a base, neither base has a base of its own, and the hub path, if taken, *)
(* finds the transforms it needs.                                          *)

EarlierChecksPass ==
    /\ call.from # Undefined
    /\ HasBase(call.from) => Spaces[call.from].toBase # NoFn
    /\ ~HasBase(BaseOf(call.from)) /\ ~HasBase(BaseOf(call.to))
    /\ call.hub => (~SourceLacks /\ ~TargetLacks)

C10_NoFromBase ==
    /\ NoFromBaseCall
          => /\ ~Returned /\ call.err # NoErr
             /\ EarlierChecksPass
                  => call.err = ErrNoFromBase(BaseOf(call.to), call.to)
    /\ FromBaseIsLast

\* OKLCH to a derived space without fromBase: the steps up to the base are
\* applied, then the error
C10_Witness ==
    /\ IsConvert
    /\ call.from = "OKLCH" /\ call.to = "NoFns"
    /\ Len(call.trace) = 2
    /\ call.err = ErrNoFromBase("sRGBLinear", "NoFns") /\ ~Returned

----------------------------------------------------------------------------
(* C11: OKLab-source fast path.  When the base-resolved source is OKLab    *)
(* and the base-resolved target has fromLMS_M, convert performs exactly    *)
(* one OKLab_to with that matrix, no XYZ matrix and no adaptation step     *)
(* (OKLCH -> sRGB is OKLCH.toBase, OKLab_to(sRGBLinear.fromLMS_M),         *)
(* sRGB.fromBase); only when the target lacks fromLMS_M does it go         *)
(* OKLab -> XYZ by OKLab_to(XYZ.fromLMS_M), then the target's adaptation   *)
(* and the target's transform from XYZ.                                    *)

\* the call got as far as choosing a route between two different bases
Routed ==
    /\ IsConvert
    /\ call.from # Undefined /\ call.to # Undefined
    /\ call.from # call.to
    /\ HasBase(call.from) => Spaces[call.from].toBase # NoFn
    /\ ~HasBase(BaseOf(call.from)) /\ ~HasBase(BaseOf(call.to))
    /\ BaseOf(call.from) # BaseOf(call.to)

\* the steps between the source's toBase and the target's fromBase
IsHubStep(s) == s[1] \notin {"toBase", "fromBase"}

HubSteps(t) == SelectSeq(t, IsHubStep)

\* the steps from XYZ to the base-resolved target
StepsFromXYZ(n) ==
    LET T == Spaces[n]
    IN  (IF T.adapt # NoAdapt THEN << <<"adapt.from", n>> >> ELSE << >>)
        \o (IF T.id = "xyz" THEN << >>
            ELSE IF T.fromXYZ # NoFn THEN << <<"fromXYZ", n>> >>
            ELSE IF Has(T.fromXYZ_M) THEN << <<"fromXYZ_M", n>> >>
            ELSE << >>)

C11_WitnessFallback ==
    /\ IsConvert /\ Returned
    /\ call.from = "OKLCH" /\ call.to = "ProPhotoRGBLinear"
    /\ call.trace = << <<"toBase", "OKLCH">>, <<"OKLab_to", "XYZ">>,
                       <<"adapt.from", "ProPhotoRGBLinear">>,
                       <<"fromXYZ_M", "ProPhotoRGBLinear">> >>

----------------------------------------------------------------------------
(* C12: No module-level mutable state.  As stated: no routine keeps or     *)
(* touches module-level mutable state, so the result of any call (convert, *)
(* serialize, parse, OKLab_to, OKLab_from, transform) on its own buffers   *)
(* is unaffected by the calls it is interleaved with.                      *)

\* the heap before the call with the scratch vector as it is at module load
CleanPre == [call.pre EXCEPT ![tmp3] = <<0, 0, 0>>]

\* the call made on CleanPre gives what the call gave
SameAsOnClean ==
    CASE call.op = "serialize" ->
            LET r == serialize(CleanPre, call.input, call.from, call.to)
            IN  r.str = call.str /\ r.err = call.err
      [] call.op = "deserialize" ->
            LET r == deserialize(CleanPre, call.arg)
            IN  /\ r.err = call.err /\ r.id = call.id /\ r.coords = call.ret
                /\ call.ret # << >> => r.heap[r.coords[1]] = heap[call.ret[1]]
      [] call.op = "parse" ->
            LET r == parse(CleanPre, call.arg, call.to, call.outArg)
            IN  /\ r.err = call.err /\ r.ret = call.ret
                /\ call.ret # << >> => r.heap[r.ret[1]] = heap[call.ret[1]]
      [] call.op = "convert" ->
            LET r == convert(CleanPre, call.input, call.from, call.to, call.outArg)
            IN  /\ r.err = call.err
                /\ call.ret # << >> => r.heap[r.out] = heap[call.ret[1]]
      [] call.op \in {"transform", "OKLab_to", "OKLab_from"} ->
            LET r == KernelRecord(call.op, CleanPre, call.input, call.mat, call.outArg)
            IN  r.post[r.ret[1]] = heap[call.ret[1]]
      [] OTHER -> TRUE

C12_NoModuleState ==
    /\ heap[tmp3] = <<0, 0, 0>>
    /\ SameAsOnClean

(* C12 as amended: the only module-level mutable state is the scratch      *)
(* vector tmp3 of core.js.  serialize alone writes it, and it copies its   *)
(* input into tmp3 before it reads tmp3; every other routine leaves tmp3   *)
(* as it was.  So the result of any call made after any sequence of other  *)
(* calls is the result the same call gives right after module load.        *)

C12_ScratchOnlyInSerialize ==
    /\ call.op \notin {"none", "serialize"} => heap[tmp3] = call.pre[tmp3]
    /\ (call.op = "serialize" /\ call.err = NoErr /\ call.from = call.to)
          => Coords(heap[tmp3]) = Coords(call.pre[call.input])
    /\ SameAsOnClean

\* a serialize without conversion made when tmp3 holds the color of an
\* earlier serialize of another vector
C12_Witness ==
    /\ call.op = "serialize" /\ call.err = NoErr
    /\ prev.op = "serialize" /\ prev.err = NoErr
    /\ call.to = Undefined
    /\ call.pre[tmp3] # <<0, 0, 0>>
    /\ call.pre[tmp3] # Coords(call.pre[call.input])
    /\ heap[tmp3] = Coords(call.pre[call.input])

----------------------------------------------------------------------------
(* C13: Routing by object, not by id.  As stated: convert selects its      *)
(* route from the identity of the descriptor objects and the presence of   *)
(* their optional fields only, never from the id string: two descriptors   *)
(* that are equal in every field except id are routed through the same     *)
(* sequence of steps.                                                      *)

\* a and b are equal in every field except id
SameButId(a, b) == [Spaces[a] EXCEPT !.id = ""] = [Spaces[b] EXCEPT !.id = ""]

\* the kinds of the steps of a trace, without the descriptors they belong to
Kinds(t) == [i \in 1 .. Len(t) |-> t[i][1]]

\* the message of an error, without the ids it names
Message(e) == IF e = NoErr THEN "" ELSE e[1]

\* convert(x, a, b) takes the steps and gives the value of the call made
SameRoute(a, b) ==
    LET r == convert(call.pre, call.input, a, b, call.outArg)
    IN  /\ Kinds(r.trace) = Kinds(call.trace)
        /\ r.hub = call.hub
        /\ Message(r.err) = Message(call.err)
        /\ Returned => Coords(r.heap[r.out]) = Result

\* the same objects are the same objects in both calls
SameIdentities(a, b) ==
    /\ (a = b) = (call.from = call.to)
    /\ (BaseOf(a) = BaseOf(b)) = (BaseOf(call.from) = BaseOf(call.to))

C13_RouteIgnoresId ==
    (IsConvert /\ call.from # Undefined /\ call.to # Undefined)
        => \A a, b \in SpaceNames :
              (SameButId(call.from, a) /\ SameButId(call.to, b)
                 /\ SameIdentities(a, b))
                  => SameRoute(a, b)

(* C13 as amended: convert takes its spaces as descriptor objects and      *)
(* selects its route from the identity of the objects, the presence of     *)
(* their optional fields, and whether the id of the base-resolved source   *)
(* or target is "oklab" or "xyz": two descriptors that are equal in every  *)
(* field except id are routed through the same sequence of steps whenever  *)
(* their bases agree on being "oklab", being "xyz" or being neither.       *)

IdClass(n) ==
    IF Spaces[BaseOf(n)].id \in {"oklab", "xyz"} THEN Spaces[BaseOf(n)].id
    ELSE "other"

C13_RouteByIdClass ==
    (IsConvert /\ call.from # Undefined /\ call.to # Undefined)
        => \A a, b \in SpaceNames :
              (SameButId(call.from, a) /\ SameButId(call.to, b)
                 /\ SameIdentities(a, b)
                 /\ IdClass(a) = IdClass(call.from)
                 /\ IdClass(b) = IdClass(call.to))
                  => SameRoute(a, b)

\* OKLCH -> LinearTwin takes the steps of OKLCH -> sRGBLinear
C13_Witness ==
    /\ IsConvert /\ Returned
    /\ call.from = "OKLCH" /\ call.to = "LinearTwin"
    /\ SameButId("LinearTwin", "sRGBLinear")
    /\ Spaces["LinearTwin"].id # Spaces["sRGBLinear"].id
    /\ Kinds(call.trace) = <<"toBase", "OKLab_to">>
    /\ SameRoute("OKLCH", "sRGBLinear")

----------------------------------------------------------------------------
(* C14: gamutMapOKLCH.  For any input OKLCH, any gamut and any mapping     *)
(* variant, when targetSpace is the gamut's RGB space or its linear base   *)
(* every channel of the result lies within [0, 1], because a final RGB     *)
(* clamp is applied; when targetSpace is OKLab or OKLCH the final clamp is *)
(* skipped and the mapped coordinates are returned unclamped.              *)

IsGamutMap == call.op = "gamutMapOKLCH"

\* the target of the call, the default being the space of the gamut
GamutTarget == IF call.to = Undefined THEN call.gamut.space ELSE call.to

\* the mapped color in the target space, before any clamp
MappedInTarget ==
    IF GamutTarget = "OKLCH"
    THEN IF call.inside THEN InputBefore(call) ELSE call.outcome.mapped
    ELSE call.outcome.converted

C14_WitnessUnclamped ==
    /\ IsGamutMap
    /\ call.to = "OKLab"
    /\ Result = <<-255, One + 255, 255>>

----------------------------------------------------------------------------
(* C15: isRGBInGamut(rgb, ep) returns true exactly when each of the three  *)
(* channels c satisfies -ep <= c <= 1 + ep, the bounds included, and false *)
(* as soon as one channel is outside; it does not modify rgb.              *)

IsInGamut == call.op = "isRGBInGamut"

ChannelInside(c, ep) == -ep <= c /\ c <= One + ep

C15_InGamutExactly ==
    IsInGamut
        => /\ call.inside
                <=> \A i \in 1 .. 3 : ChannelInside(call.pre[call.input][i], call.ep)
           /\ heap = call.pre

\* every channel inside, the first and the third exactly on a bound
C15_Witness ==
    /\ IsInGamut
    /\ call.ep = 1
    /\ call.pre[call.input] = <<255, One, -1>>
    /\ call.inside

\* one channel outside by the smallest step, the others inside
C15_WitnessOutside ==
    /\ IsInGamut
    /\ call.ep = 1
    /\ call.pre[call.input] = <<255, One + 2, 255>>
    /\ ~call.inside

----------------------------------------------------------------------------
(* C16: serialize with an sRGB output space returns the legacy byte form:  *)
(* 'rgb(r, g, b)' when the input has no 4th component or its 4th component *)
(* is exactly 1, and 'rgba(r, g, b, alpha)' otherwise, where r, g, b are   *)
(* floatToByte of the (converted) channels; serialize never modifies its   *)
(* input vector.                                                           *)

IsSerialize == call.op = "serialize" /\ call.err = NoErr

\* the output space of the call, the default being the input space
OutputSpace == IF call.to = Undefined THEN call.from ELSE call.to

\* the channels of the input in the output space
ConvertedChannels ==
    IF call.from = OutputSpace
    THEN InputBefore(call)
    ELSE LET f == convert(call.pre, call.input, call.from, OutputSpace, << >>)
         IN  Coords(f.heap[f.out])

ByteList ==
    LET c == ConvertedChannels
    IN  <<Num(Whole(floatToByte(c[1]))), Lit(","), Lit(" "),
          Num(Whole(floatToByte(c[2]))), Lit(","), Lit(" "),
          Num(Whole(floatToByte(c[3])))>>

C16_LegacyByteForm ==
    (IsSerialize /\ Spaces[OutputSpace].id = "srgb")
        => LET v == call.pre[call.input]
           IN  /\ (Len(v) <= 3 \/ v[4] = One)
                    => call.str = <<Lit("rgb"), Lit("(")>> \o ByteList \o <<Lit(")")>>
               /\ (Len(v) > 3 /\ v[4] # One)
                    => call.str = <<Lit("rgba"), Lit("(")>> \o ByteList
                                  \o <<Lit(","), Lit(" "), Num(v[4]), Lit(")")>>
               /\ heap[call.input] = v

\* serialize([0, 0.5, 1, 1], sRGB) is "rgb(0, 128, 255)"
C16_Witness ==
    /\ IsSerialize /\ call.from = "sRGB" /\ call.to = Undefined
    /\ call.pre[call.input] = <<0, 255, One, One>>
    /\ call.str = <<Lit("rgb"), Lit("("), Num(Whole(0)), Lit(","), Lit(" "),
                    Num(Whole(128)), Lit(","), Lit(" "), Num(Whole(255)), Lit(")")>>

\* serialize([0, 0.5, 1, 0.5], sRGB) is "rgba(0, 128, 255, 0.5)"
C16_WitnessAlpha ==
    /\ IsSerialize /\ call.from = "sRGB"
    /\ call.pre[call.input] = <<0, 255, One, 255>>
    /\ call.str = <<Lit("rgba"), Lit("("), Num(Whole(0)), Lit(","), Lit(" "),
                    Num(Whole(128)), Lit(","), Lit(" "), Num(Whole(255)),
                    Lit(","), Lit(" "), Num(255), Lit(")")>>

\* a serialize to sRGB from another space
C16_WitnessConverted ==
    /\ IsSerialize /\ call.from = "OKLCH" /\ call.to = "sRGB"
    /\ call.str # << >>

----------------------------------------------------------------------------
(* C17: serialize with an OKLab or OKLCH output space writes the three     *)
(* coordinates as their plain numeric values inside 'oklab(...)' or        *)
(* 'oklch(...)', lightness included, so that serialize([1, 0, 0], OKLCH)   *)
(* returns "oklch(1 0 0)".                                                 *)

\* ` / ${alpha}` unless alpha is 1
AlphaSuffix(v) ==
    IF Len(v) > 3 /\ v[4] # One
    THEN <<Lit(" "), Lit("/"), Lit(" "), Num(v[4])>>
    ELSE << >>

C17_PlainCoordinates ==
    (IsSerialize /\ Spaces[OutputSpace].id \in {"oklab", "oklch"})
        => LET c == ConvertedChannels
           IN  call.str = <<Lit(Spaces[OutputSpace].id), Lit("("),
                            Num(c[1]), Lit(" "), Num(c[2]), Lit(" "), Num(c[3])>>
                          \o AlphaSuffix(call.pre[call.input]) \o <<Lit(")")>>

----------------------------------------------------------------------------
(* C18: deserialize is the inverse of serialize.  As stated: for every     *)
(* space S and coords c of 3 or 4 components (for sRGB, channels that are  *)
(* exact multiples of 1/255), deserialize(serialize(c, S)) returns id      *)
(* equal to S.id and coords equal to c, with the alpha component dropped   *)
(* exactly when it is 1.                                                   *)

\* deserialize(serialize(c, S)): the string of the serialize before it
IsRoundTripText ==
    /\ call.op = "deserialize"
    /\ prev.op = "serialize" /\ prev.err = NoErr
    /\ prev.to = Undefined
    /\ call.arg = prev.str

Serialized == prev.pre[prev.input]

\* a multiple of 1/255
IsMultipleOfByteStep(n) == n % 2 = 0

\* b / 255 for a byte b
IsByteOver255(n) == IsMultipleOfByteStep(n) /\ 0 <= n /\ n <= One

\* c, without its alpha component when that is 1
AlphaDroppedWhenOne(c) ==
    IF Len(c) > 3 /\ c[4] = One THEN Coords(c) ELSE c

GivesBack ==
    /\ call.err = NoErr
    /\ call.id = Spaces[prev.from].id
    /\ call.ret # << >>
    /\ heap[call.ret[1]] = AlphaDroppedWhenOne(Serialized)

C18_DeserializeInverse ==
    (/\ IsRoundTripText
     /\ Spaces[prev.from].id = "srgb"
            => \A i \in 1 .. 3 : IsMultipleOfByteStep(Serialized[i]))
        => GivesBack

(* C18 as amended: the sRGB channels are of the form b/255 with b a byte   *)
(* 0..255, the coordinates are finite, and the lightness of OKLab and      *)
(* OKLCH is given back up to the rounding of (L * 100) / 100.              *)

C18_DeserializeInverseOnBytes ==
    (/\ IsRoundTripText
     /\ Spaces[prev.from].id = "srgb"
            => \A i \in 1 .. 3 : IsByteOver255(Serialized[i]))
        => GivesBack

\* "rgba(255, 0, 0, 0.5)" read back as [1, 0, 0, 0.5] in srgb
C18_Witness ==
    /\ IsRoundTripText
    /\ prev.from = "sRGB"
    /\ Serialized = <<One, 0, 0, 255>>
    /\ call.id = "srgb"
    /\ heap[call.ret[1]] = <<One, 0, 0, 255>>

\* "oklch(100% 0 0)" of [1, 0, 0, 1] read back as [1, 0, 0]
C18_WitnessAlphaDropped ==
    /\ IsRoundTripText
    /\ prev.from = "OKLCH"
    /\ Serialized = <<One, 0, 0, One>>
    /\ call.id = "oklch"
    /\ heap[call.ret[1]] = <<One, 0, 0>>

----------------------------------------------------------------------------
(* C19: floatToByte(n) is round(255 * n) clamped to 0..255: for every      *)
(* finite n the result is an integer in [0, 255], it is 0 for n <= 0 and   *)
(* 255 for n >= 1, it is monotone non-decreasing in n, and                 *)
(* floatToByte(b / 255) = b for every byte b.                              *)

IsFloatToByte == call.op = "floatToByte"

\* r is the integer nearest to 255 * n, the upper one of two equally near
IsRounded(r, n) ==
    /\ 2 * (r * Den - 255 * n) <= Den
    /\ 2 * (r * Den - 255 * n) > -Den

C19_FloatToByte ==
    IsFloatToByte
        => LET n == call.n
               r == call.byte
           IN  /\ r \in 0 .. 255
               /\ n <= 0 => r = 0
               /\ n >= One => r = 255
               /\ (0 <= n /\ n <= One) => IsRounded(r, n)
               /\ \A m \in FloatInputs : m <= n => floatToByte(m) <= r
               /\ \A b \in 0 .. 255 : n = ByteOver255(b) => r = b

\* floatToByte(0.5) is 128
C19_Witness ==
    /\ IsFloatToByte
    /\ call.n = 255
    /\ call.byte = 128

\* floatToByte(200 / 255) is 200
C19_WitnessByte ==
    /\ IsFloatToByte
    /\ call.n = ByteOver255(200)
    /\ call.byte = 200

\* floatToByte(-0.5) is 0 and floatToByte(2) is 255
C19_WitnessBelow ==
    /\ IsFloatToByte
    /\ call.n = -255
    /\ call.byte = 0

C19_WitnessAbove ==
    /\ IsFloatToByte
    /\ call.n = 2 * One
    /\ call.byte = 255

----------------------------------------------------------------------------
(* C20: hex round trip.  For every triple of bytes (r, g, b),              *)
(* hexToRGB(RGBToHex([r/255, g/255, b/255])) equals [r/255, g/255, b/255]; *)
(* RGBToHex returns '#' followed by exactly 6 lowercase hex digits;        *)
(* hexToRGB accepts the string with or without the leading '#'; and a      *)
(* 3-digit shorthand 'abc' gives the same result as 'aabbcc'.              *)

IsLowerHexDigit(tok) == \E i \in 1 .. 16 : tok = Lit(HexDigits[i])

\* hexToRGB of the string the RGBToHex before it returned, with or without "#"
IsHexRoundTrip ==
    /\ call.op = "hexToRGB"
    /\ prev.op = "RGBToHex"
    /\ call.arg \in {prev.str, Tail(prev.str)}

\* hexToRGB of three hex digits, with or without "#"
IsShorthand ==
    /\ call.op = "hexToRGB"
    /\ Len(RemoveFirstHash(call.arg)) = 3

\* 'aabbcc' for 'abc'
Doubled(str) == <<str[1], str[1], str[2], str[2], str[3], str[3]>>

C20_HexRoundTrip ==
    /\ call.op = "RGBToHex"
          => /\ Len(call.str) = 7
             /\ call.str[1] = Lit("#")
             /\ \A i \in 2 .. 7 : IsLowerHexDigit(call.str[i])
    /\ IsHexRoundTrip => Result = prev.rgb
    /\ IsShorthand
          => LET long == Doubled(RemoveFirstHash(call.arg))
                 r == HexToRGBRecord(call.pre, long, call.outArg)
             IN  Result = Coords(r.post[r.ret[1]])

\* [171/255, 9/255, 1] is "#ab09ff", read back without the "#"
C20_Witness ==
    /\ IsHexRoundTrip
    /\ prev.rgb = <<ByteOver255(171), ByteOver255(9), One>>
    /\ prev.str = <<Lit("#"), Lit("a"), Lit("b"), Lit("0"), Lit("9"), Lit("f"), Lit("f")>>
    /\ call.arg = Tail(prev.str)
    /\ Result = prev.rgb

\* "abc" is read as "aabbcc"
C20_WitnessShorthand ==
    /\ IsShorthand
    /\ call.arg = <<Lit("a"), Lit("b"), Lit("c")>>
    /\ Result = <<ByteOver255(170), ByteOver255(187), ByteOver255(204)>>

----------------------------------------------------------------------------
(* C21: lerpAngle interpolates along the shortest arc.  For all integer    *)
(* degree angles a0, a1, deltaAngle(a0, a1) lies in [-180, 180] and        *)
(* a0 + deltaAngle(a0, a1) is congruent to a1 modulo 360, so that          *)
(* lerpAngle(a0, a1, 0) = a0 and lerpAngle(a0, a1, 1) is congruent to a1   *)
(* modulo 360.                                                             *)

\* a and b differ by a multiple of 360
Congruent360(a, b) == (a - b) % 360 = 0

C21_ShortestArc ==
    /\ call.op = "deltaAngle"
          => /\ -180 <= call.value /\ call.value <= 180
             /\ Congruent360(call.a0 + call.value, call.a1)
    /\ (call.op = "lerpAngle" /\ call.t = 0) => call.value = Whole(call.a0)
    /\ (call.op = "lerpAngle" /\ call.t = One)
          => \E a \in -2 * MaxAngle .. 2 * MaxAngle + 360 :
                /\ call.value = Whole(a)
                /\ Congruent360(a, call.a1)
                /\ -180 <= a - call.a0 /\ a - call.a0 <= 180

\* from 359 to 1 the arc goes up through 360: deltaAngle(359, 1) is 2
C21_Witness ==
    /\ call.op = "deltaAngle"
    /\ call.a0 = 359 /\ call.a1 = 1
    /\ call.value = 2

\* lerpAngle(359, 1, 1) is 361
C21_WitnessLerp ==
    /\ call.op = "lerpAngle"
    /\ call.a0 = 359 /\ call.a1 = 1 /\ call.t = One
    /\ call.value = Whole(361)

\* the two arcs are equally long: deltaAngle(0, 180) is -180
C21_WitnessHalfTurn ==
    /\ call.op = "deltaAngle"
    /\ call.a0 = 0 /\ call.a1 = 180
    /\ call.value = -180

----------------------------------------------------------------------------
(* C22: constrainAngle(angle) returns, for every integer angle (negative,  *)
(* zero or positive, under JavaScript's sign-of-dividend remainder), a     *)
(* value r with 0 <= r < 360 and r congruent to angle modulo 360; it is    *)
(* idempotent.                                                             *)

C22_ConstrainAngle ==
    call.op = "constrainAngle"
        => /\ 0 <= call.value /\ call.value < 360
           /\ Congruent360(call.value, call.angle)
           /\ constrainAngle(call.value) = call.value

\* constrainAngle(-370) is 350
C22_Witness ==
    /\ call.op = "constrainAngle"
    /\ call.angle = -370
    /\ call.value = 350

\* constrainAngle(360) is 0
C22_WitnessFullTurn ==
    /\ call.op = "constrainAngle"
    /\ call.angle = 360
    /\ call.value = 0

----------------------------------------------------------------------------
(* C23: OKLab-target routing.  As stated: when the base-resolved target is *)
(* OKLab and the source is not, convert uses exactly one OKLab_from with   *)
(* the source's toLMS_M if the source has one, with no XYZ matrix and no   *)
(* adaptation step; if the source has no toLMS_M it goes source -> XYZ     *)
(* (toXYZ_M unless the source is XYZ), then the source's adaptation, then  *)
(* OKLab_from with XYZ.toLMS_M, and never applies a fromXYZ_M of the       *)
(* target.                                                                 *)

\* the source's adaptation and the bridge from XYZ into OKLab
StepsIntoOKLab(n) ==
    (IF Spaces[n].adapt # NoAdapt THEN << <<"adapt.to", n>> >> ELSE << >>)
    \o (IF Target.adapt # NoAdapt
        THEN << <<"adapt.from", BaseOf(call.to)>> >> ELSE << >>)
    \o << <<"OKLab_from", "XYZ">> >>

IsFromXYZStep(s) == s[1] \in {"fromXYZ", "fromXYZ_M"}

OKLabTargetDirect ==
    /\ ~call.hub
    /\ HubSteps(call.trace) = << <<"OKLab_from", BaseOf(call.from)>> >>
    /\ Returned => Result = TraceValue(call.trace, InputBefore(call))

C23_OKLabTarget ==
    (Routed /\ Target.id = "oklab" /\ Source.id # "oklab")
        => IF Has(Source.toLMS_M)
           THEN OKLabTargetDirect
           ELSE /\ call.hub
                /\ HubSteps(call.trace)
                     = (IF Source.id = "xyz" THEN << >>
                        ELSE << <<"toXYZ_M", BaseOf(call.from)>> >>)
                       \o StepsIntoOKLab(BaseOf(call.from))
                /\ SelectSeq(call.trace, IsFromXYZStep) = << >>

(* C23 as amended: the step into XYZ is the source's toXYZ function if it  *)
(* has one and its toXYZ_M otherwise, and a source with neither makes      *)
(* convert throw the missing-transform error before any hub step.          *)
C23_OKLabTargetRoute ==
    (Routed /\ Target.id = "oklab" /\ Source.id # "oklab")
        => IF Has(Source.toLMS_M)
           THEN OKLabTargetDirect
           ELSE /\ call.hub
                /\ SelectSeq(call.trace, IsFromXYZStep) = << >>
                /\ IF SourceLacks
                   THEN /\ HubSteps(call.trace) = << >>
                        /\ call.err = ErrNoToXYZ(BaseOf(call.from))
                        /\ ~Returned
                   ELSE /\ HubSteps(call.trace)
                             = (IF Source.id = "xyz" THEN << >>
                                ELSE IF Source.toXYZ # NoFn
                                THEN << <<"toXYZ", BaseOf(call.from)>> >>
                                ELSE << <<"toXYZ_M", BaseOf(call.from)>> >>)
                               \o StepsIntoOKLab(BaseOf(call.from))
                        /\ Returned
                             => Result = TraceValue(call.trace,
                                                    InputBefore(call))

\* sRGB -> OKLCH: one OKLab_from with sRGBLinear.toLMS_M
C23_Witness ==
    /\ IsConvert /\ Returned
    /\ call.from = "sRGB" /\ call.to = "OKLCH"
    /\ call.trace = << <<"toBase", "sRGB">>, <<"OKLab_from", "sRGBLinear">>,
                       <<"fromBase", "OKLCH">> >>

\* ProPhotoRGBLinear has no toLMS_M: toXYZ_M, D50 -> D65, then the bridge
C23_WitnessFallback ==
    /\ IsConvert /\ Returned
    /\ call.from = "ProPhotoRGBLinear" /\ call.to = "OKLab"
    /\ call.trace = << <<"toXYZ_M", "ProPhotoRGBLinear">>,
                       <<"adapt.to", "ProPhotoRGBLinear">>,
                       <<"OKLab_from", "XYZ">> >>

\* a source with a toXYZ function and no matrix
C23_WitnessFunction ==
    /\ IsConvert /\ Returned
    /\ call.from = "FnXYZ" /\ call.to = "OKLab"
    /\ call.trace = << <<"toXYZ", "FnXYZ">>, <<"OKLab_from", "XYZ">> >>

\* XYZ -> OKLab: the bridge alone
C23_WitnessFromXYZ ==
    /\ IsConvert /\ Returned
    /\ call.from = "XYZ" /\ call.to = "OKLab"
    /\ call.trace = << <<"OKLab_from", "XYZ">> >>

----------------------------------------------------------------------------
(* C24: XYZ hub route.  As stated: when the two base-resolved endpoints    *)
(* differ and neither is OKLab, convert always goes through XYZ, even if   *)
(* both spaces have LMS matrices, and applies its steps in exactly this    *)
(* order: source toXYZ_M (skipped when the source is XYZ), source adapt.to *)
(* if the source has adapt, target adapt.from if the target has adapt,     *)
(* target fromXYZ_M (skipped when the target is XYZ); each step is applied *)
(* at most once.                                                           *)
HubCase == Routed /\ Source.id # "oklab" /\ Target.id # "oklab"

AdaptSteps ==
    (IF Source.adapt # NoAdapt
     THEN << <<"adapt.to", BaseOf(call.from)>> >> ELSE << >>)
    \o (IF Target.adapt # NoAdapt
        THEN << <<"adapt.from", BaseOf(call.to)>> >> ELSE << >>)

C24_HubOrder ==
    HubCase
        => /\ call.hub
           /\ HubSteps(call.trace)
                = (IF Source.id = "xyz" THEN << >>
                   ELSE << <<"toXYZ_M", BaseOf(call.from)>> >>)
                  \o AdaptSteps
                  \o (IF Target.id = "xyz" THEN << >>
                      ELSE << <<"fromXYZ_M", BaseOf(call.to)>> >>)

\* the step into XYZ and the step out of it, as convert chooses them
StepIntoXYZ ==
    IF Source.id = "xyz" THEN << >>
    ELSE IF Source.toXYZ # NoFn THEN << <<"toXYZ", BaseOf(call.from)>> >>
    ELSE << <<"toXYZ_M", BaseOf(call.from)>> >>

StepOutOfXYZ ==
    IF Target.id = "xyz" THEN << >>
    ELSE IF Target.fromXYZ # NoFn THEN << <<"fromXYZ", BaseOf(call.to)>> >>
    ELSE << <<"fromXYZ_M", BaseOf(call.to)>> >>

(* C24 as amended: a toXYZ / fromXYZ function takes the place of the       *)
(* matrix when the descriptor has one, and a descriptor with neither makes *)
(* convert throw after the steps that precede the missing one.             *)
C24_HubOrderOfSteps ==
    HubCase
        => /\ call.hub
           /\ IF SourceLacks
              THEN /\ HubSteps(call.trace) = << >>
                   /\ call.err = ErrNoToXYZ(BaseOf(call.from))
              ELSE IF TargetLacks
              THEN /\ HubSteps(call.trace) = StepIntoXYZ \o AdaptSteps
                   /\ call.err = ErrNoFromXYZ(BaseOf(call.to))
              ELSE /\ HubSteps(call.trace)
                        = StepIntoXYZ \o AdaptSteps \o StepOutOfXYZ
                   /\ Returned
                        => Result = TraceValue(call.trace, InputBefore(call))

\* sRGB -> A98RGB: both bases have LMS matrices, the route is by XYZ
C24_Witness ==
    /\ IsConvert /\ Returned
    /\ call.from = "sRGB" /\ call.to = "A98RGB"
    /\ Has(Source.toLMS_M) /\ Has(Target.fromLMS_M)
    /\ call.trace = << <<"toBase", "sRGB">>, <<"toXYZ_M", "sRGBLinear">>,
                       <<"fromXYZ_M", "A98RGBLinear">>,
                       <<"fromBase", "A98RGB">> >>

\* both endpoints have adapt: all four steps
C24_WitnessAdapt ==
    /\ IsConvert /\ Returned
    /\ call.from = "ProPhotoRGBLinear" /\ call.to = "CustomD50"
    /\ call.trace = << <<"toXYZ_M", "ProPhotoRGBLinear">>,
                       <<"adapt.to", "ProPhotoRGBLinear">>,
                       <<"adapt.from", "CustomD50">>,
                       <<"fromXYZ_M", "CustomD50">> >>

\* functions in place of matrices
C24_WitnessFunction ==
    /\ IsConvert /\ Returned
    /\ call.from = "FnXYZ" /\ call.to = "sRGBLinear"
    /\ call.trace = << <<"toXYZ", "FnXYZ">>, <<"fromXYZ_M", "sRGBLinear">> >>

\* the target has no transform from XYZ: the source's steps, then the error
C24_WitnessThrows ==
    /\ IsConvert /\ ~Returned
    /\ call.from = "ProPhotoRGBLinear" /\ call.to = "HalfXYZ"
    /\ call.trace = << <<"toXYZ_M", "ProPhotoRGBLinear">>,
                       <<"adapt.to", "ProPhotoRGBLinear">> >>
    /\ call.err = ErrNoFromXYZ("HalfXYZ")

----------------------------------------------------------------------------
(* C25: Same-base short-circuit.  When the base-resolved source is the     *)
(* same descriptor as the base-resolved target, convert applies no matrix, *)
(* no OKLab kernel and no adaptation: derived -> its base applies only     *)
(* toBase, base -> derived applies only fromBase, and two different        *)
(* derived spaces sharing one base apply the source's toBase followed by   *)
(* the target's fromBase.                                                  *)
SameBase ==
    /\ IsConvert
    /\ call.from # Undefined /\ call.to # Undefined
    /\ call.from # call.to
    /\ BaseOf(call.from) = BaseOf(call.to)
    /\ ~HasBase(BaseOf(call.from))

\* the source's toBase and the target's fromBase, where they apply
BaseSteps ==
    (IF HasBase(call.from) THEN << <<"toBase", call.from>> >> ELSE << >>)
    \o (IF HasBase(call.to) THEN << <<"fromBase", call.to>> >> ELSE << >>)

IsPrefix(s, t) == Len(s) <= Len(t) /\ s = SubSeq(t, 1, Len(s))

C25_SameBase ==
    SameBase
        => /\ ~call.hub
           /\ HubSteps(call.trace) = << >>
           /\ IsPrefix(call.trace, BaseSteps)
           /\ Returned
                => /\ call.trace = BaseSteps
                   /\ Result = TraceValue(BaseSteps, InputBefore(call))

\* derived -> its base
C25_Witness ==
    /\ IsConvert /\ Returned
    /\ call.from = "sRGB" /\ call.to = "sRGBLinear"
    /\ call.trace = << <<"toBase", "sRGB">> >>
    /\ Result = FnValue("sRGBGammaToLinearVec3", InputBefore(call))

\* base -> derived
C25_WitnessFromBase ==
    /\ IsConvert /\ Returned
    /\ call.from = "OKLab" /\ call.to = "OKLCH"
    /\ call.trace = << <<"fromBase", "OKLCH">> >>

\* two derived spaces on one base
C25_WitnessSiblings ==
    /\ IsConvert /\ Returned
    /\ call.from = "sRGB" /\ call.to = "SharedBase"
    /\ BaseOf(call.from) = "sRGBLinear" /\ BaseOf(call.to) = "sRGBLinear"
    /\ call.trace = << <<"toBase", "sRGB">>, <<"fromBase", "SharedBase">> >>
    /\ Result = FnValue("A98RGB.fromBase",
                    FnValue("sRGBGammaToLinearVec3", InputBefore(call)))

----------------------------------------------------------------------------
(* C26: OKLab kernels apply their three steps in a fixed order: OKLab_to   *)
(* applies the OKLab->LMS matrix, then cubes each of the 3 components,     *)
(* then applies the supplied LMS->output matrix; OKLab_from applies the    *)
(* supplied input->LMS matrix, then takes the sign-preserving real cube    *)
(* root of each component (negative inputs give negative roots,            *)
(* cbrt(x^3) = x), then applies the LMS->OKLab matrix; with a matrix pair  *)
(* M and its inverse, OKLab_from(OKLab_to(v, M), inverse of M) = v.        *)
Negated(x) == (P - x) % P

\* OKLab_from given back the result of OKLab_to, with the inverse matrix
IsKernelRoundTrip ==
    /\ ncalls = 2
    /\ call.op = "OKLab_from" /\ prev.op = "OKLab_to"
    /\ call.input = prev.ret[1]
    /\ call.mat = InverseMat(prev.mat)

C26_KernelOrder ==
    /\ call.op = "OKLab_to"
          => Result = MatVec(call.mat,
                         Cubed(MatVec(OKLab_to_LMS_M, InputBefore(call))))
    /\ call.op = "OKLab_from"
          => /\ Result = MatVec(LMS_to_OKLab_M,
                             Cbrted(MatVec(call.mat, InputBefore(call))))
             /\ Cubed(MatVec(OKLab_to_LMS_M, Result))
                    = MatVec(call.mat, InputBefore(call))
    /\ IsKernel
          => \A x \in 0 .. P - 1 :
                cbrt(cube(x)) = x /\ cbrt(Negated(x)) = Negated(cbrt(x))
    /\ IsKernelRoundTrip => Result = InputBefore(prev)

C26_Witness ==
    /\ IsKernelRoundTrip
    /\ InputBefore(prev) = <<1, 0, 1>>
    /\ prev.mat = LMS_to_linear_sRGB_M
    /\ InputBefore(call) # InputBefore(prev)
    /\ Result = <<1, 0, 1>>

\* OKLab_to alone: the cube lies between the two matrices
C26_WitnessTo ==
    /\ call.op = "OKLab_to" /\ ncalls = 1
    /\ InputBefore(call) = <<1, 1, 0>>
    /\ Result # MatVec(call.mat, MatVec(OKLab_to_LMS_M, InputBefore(call)))
    /\ Result # Cubed(MatVec(call.mat,
                             MatVec(OKLab_to_LMS_M, InputBefore(call))))

\* OKLab_from alone, with an LMS component in the upper (negative) half
C26_WitnessFrom ==
    /\ call.op = "OKLab_from" /\ ncalls = 1
    /\ \E i \in 1 .. 3 : 2 * MatVec(call.mat, InputBefore(call))[i] > P
    /\ Result # Cbrted(MatVec(LMS_to_OKLab_M,
                              MatVec(call.mat, InputBefore(call))))

----------------------------------------------------------------------------
(* C27: Registry invariant.  Every derived space of the library (sRGB,     *)
(* DisplayP3, Rec2020, A98RGB) has a base that itself has no base and      *)
(* defines both toBase and fromBase, and every linear RGB base             *)
(* (sRGBLinear, DisplayP3Linear, Rec2020Linear, A98RGBLinear) has all four *)
(* of toXYZ_M, fromXYZ_M, toLMS_M, fromLMS_M; hence convert between any    *)
(* two of these spaces never raises the depth, missing-transform or        *)
(* derived-link error.                                                     *)
DerivedRGB == {"sRGB", "DisplayP3", "Rec2020", "A98RGB"}

LinearRGB == {"sRGBLinear", "DisplayP3Linear", "Rec2020Linear", "A98RGBLinear"}

WellFormedDerived(n) ==
    /\ HasBase(n)
    /\ ~HasBase(Spaces[n].base)
    /\ Spaces[n].toBase # NoFn
    /\ Spaces[n].fromBase # NoFn

HasAllMatrices(n) ==
    /\ Has(Spaces[n].toXYZ_M) /\ Has(Spaces[n].fromXYZ_M)
    /\ Has(Spaces[n].toLMS_M) /\ Has(Spaces[n].fromLMS_M)

InRegistry ==
    /\ IsConvert
    /\ call.from \in DerivedRGB \cup LinearRGB
    /\ call.to \in DerivedRGB \cup LinearRGB

C27_Registry ==
    IsConvert
        => /\ \A n \in DerivedRGB : WellFormedDerived(n)
           /\ \A n \in LinearRGB : HasAllMatrices(n)
           /\ InRegistry
                => /\ call.err = NoErr
                   /\ Returned
                   /\ Result = TraceValue(call.trace, InputBefore(call))

\* Rec2020 -> DisplayP3: both derived, by XYZ
C27_Witness ==
    /\ InRegistry /\ Returned
    /\ call.from = "Rec2020" /\ call.to = "DisplayP3"
    /\ call.trace = << <<"toBase", "Rec2020">>,
                       <<"toXYZ_M", "Rec2020Linear">>,
                       <<"fromXYZ_M", "DisplayP3Linear">>,
                       <<"fromBase", "DisplayP3">> >>

\* a linear base to the derived space of another base
C27_WitnessLinear ==
    /\ InRegistry /\ Returned
    /\ call.from = "DisplayP3Linear" /\ call.to = "A98RGB"
    /\ Len(call.trace) = 3

----------------------------------------------------------------------------
(* C28: deserialize of a byte-form rgb()/rgba() string (comma- or          *)
(* space-separated) returns id 'srgb' and each of the first three coords   *)
(* equal to the byte value divided by 255 and within [0, 1], whatever      *)
(* channel numbers the string contains (values above 255 are clamped to 1, *)
(* negative values to 0); the alpha value is not divided by 255.           *)
IsByteForm ==
    /\ call.op = "deserialize"
    /\ call.arg # << >> /\ call.arg[1] \in {Lit("rgb"), Lit("rgba")}

\* the numbers written in the string, in their order
NumbersOf(str) ==
    LET nums == SelectSeq(str, IsNum)
    IN  [i \in 1 .. Len(nums) |-> nums[i][3]]

\* the coords returned
CoordsOut == heap[call.ret[1]]

\* n / 255 brought into [0, 1]
ByteFraction(n) == clamp(n \div 255, 0, One)

C28_ByteForm ==
    IsByteForm
        => /\ call.err = NoErr
           /\ call.id = "srgb"
           /\ \A i \in 1 .. 3 :
                 /\ CoordsOut[i] = ByteFraction(NumbersOf(call.arg)[i])
                 /\ CoordsOut[i] >= 0 /\ CoordsOut[i] <= One
           /\ Len(CoordsOut) = 4 => CoordsOut[4] = NumbersOf(call.arg)[4]

\* what deserialize returns for bytes above 255: the quotient, above 1
C28_Over255 ==
    /\ IsByteForm
    /\ NumbersOf(call.arg)[1] = Whole(300)
    /\ CoordsOut[1] = Whole(300) \div 255
    /\ CoordsOut[1] > One

----------------------------------------------------------------------------
(* C29: convert copies input[0..2] into out before it validates its        *)
(* arguments and does not roll out back on failure: when convert throws    *)
(* the missing-fromSpace or missing-toSpace error, out[0..2] already       *)
(* equals input[0..2]; when it throws a later error (depth, missing        *)
(* transform, missing fromBase) out holds the partially converted value of *)
(* the steps executed so far.                                              *)

\* the buffer the call wrote to: the caller's, or the one vec3() made
OutOf(c) == IF c.outArg = << >> THEN NewRef(c.pre) ELSE c.outArg[1]

Threw == IsConvert /\ call.err # NoErr

C29_NoRollBack ==
    Threw
        => /\ ~Returned
           /\ call.err \in {ErrFromSpace, ErrToSpace}
                => /\ call.trace = << >>
                   /\ Coords(heap[OutOf(call)]) = InputBefore(call)
           /\ Coords(heap[OutOf(call)])
                = TraceValue(call.trace, InputBefore(call))

\* no fromSpace: the caller's out holds the input, not what it held before
C29_Witness ==
    /\ Threw
    /\ call.err = ErrFromSpace
    /\ call.outArg = <<2>>
    /\ Coords(heap[2]) = InputBefore(call)
    /\ Coords(heap[2]) # Coords(call.pre[2])

C29_WitnessToSpace ==
    /\ Threw
    /\ call.err = ErrToSpace /\ call.from # Undefined
    /\ call.outArg = << >>
    /\ InputBefore(call) # <<0, 0, 0>>
    /\ Coords(heap[OutOf(call)]) = InputBefore(call)

\* a late error: the steps before it are left in out
C29_WitnessLate ==
    /\ Threw
    /\ call.from = "sRGB" /\ call.to = "HalfXYZ"
    /\ call.err = ErrNoFromXYZ("HalfXYZ")
    /\ call.trace = << <<"toBase", "sRGB">>, <<"toXYZ_M", "sRGBLinear">> >>
    /\ call.outArg = <<2>>
    /\ Coords(heap[2])
         = MatVec(linear_sRGB_to_XYZ_M,
                  FnValue("sRGBGammaToLinearVec3", InputBefore(call)))
    /\ Coords(heap[2]) # InputBefore(call)

\* the depth error comes after the source's toBase
C29_WitnessDepth ==
    /\ Threw
    /\ call.from = "sRGB" /\ call.to = "Deep" /\ call.err = ErrDepth
    /\ call.trace = << <<"toBase", "sRGB">> >>
    /\ Coords(heap[OutOf(call)])
         = FnValue("sRGBGammaToLinearVec3", InputBefore(call))
    /\ Coords(heap[OutOf(call)]) # InputBefore(call)

----------------------------------------------------------------------------
(* C30: convert never writes to its input when out is a different buffer   *)
(* (or omitted): on every route, and also when it throws, input[0..2]      *)
(* after the call equal input[0..2] before the call; all intermediate      *)
(* results of toBase, matrix, OKLab and fromBase steps are written to out  *)
(* only.                                                                   *)
SeparateOut == IsConvert /\ call.outArg # <<call.input>>

C30_InputKept ==
    SeparateOut
        => /\ Coords(heap[call.input]) = InputBefore(call)
           /\ \A r \in DOMAIN call.pre :
                 r # OutOf(call) => heap[r] = call.pre[r]
           /\ Coords(heap[OutOf(call)])
                = TraceValue(call.trace, InputBefore(call))

\* a route of four steps into the caller's second buffer
C30_Witness ==
    /\ SeparateOut /\ Returned
    /\ call.from = "sRGB" /\ call.to = "A98RGB"
    /\ call.outArg = <<2>>
    /\ Len(call.trace) = 4
    /\ heap[1] = call.pre[1]
    /\ Coords(heap[2]) # Coords(call.pre[2])
    /\ Coords(heap[2]) # Coords(heap[1])

\* out omitted, the call throws after two steps
C30_WitnessThrows ==
    /\ SeparateOut /\ ~Returned
    /\ call.outArg = << >>
    /\ Len(call.trace) = 2
    /\ heap[1] = call.pre[1]
    /\ Coords(heap[OutOf(call)]) # InputBefore(call)

====
